---- MODULE Spec2Model ----
(***************************************************************************)
(* Verification model of the VideoML Editor core:                          *)
(*   - VideoPlayerController (videomleditor/player_controller.py),         *)
(*   - the frame/time conversion of MainWindow (main_window.py),           *)
(*   - the gesture state machine of VideoView (video_view.py).             *)
(*                                                                         *)
(* Python floats are modelled by exact rationals <<n, d>> (d > 0, lowest   *)
(* terms); int() is truncation toward zero and round() is Python 3's       *)
(* round-half-to-even.                                                     *)
(***************************************************************************)
EXTENDS Integers, Sequences, FiniteSets, TLC

(***************************************************************************)
(* Exact rational arithmetic.                                              *)
(***************************************************************************)
Abs(i) == IF i < 0 THEN -i ELSE i

RECURSIVE GCD(_, _)
GCD(a, b) == IF b = 0 THEN a ELSE GCD(b, a % b)

Rat(n, d) ==
    LET s == IF d < 0 THEN -1 ELSE 1
        g == GCD(Abs(n), Abs(d))
    IN  <<(s * n) \div g, (s * d) \div g>>

FromInt(i) == <<i, 1>>

RAdd(a, b) == Rat(a[1] * b[2] + b[1] * a[2], a[2] * b[2])

RSub(a, b) == Rat(a[1] * b[2] - b[1] * a[2], a[2] * b[2])

RMul(a, b) == Rat(a[1] * b[1], a[2] * b[2])

RDiv(a, b) == Rat(a[1] * b[2], a[2] * b[1])

RLt(a, b) == a[1] * b[2] < b[1] * a[2]

RLe(a, b) == a[1] * b[2] <= b[1] * a[2]

RAbs(a) == <<Abs(a[1]), a[2]>>

RMin(a, b) == IF RLe(a, b) THEN a ELSE b

RMax(a, b) == IF RLe(a, b) THEN b ELSE a

\* Python int(x) on a float: truncation toward zero.
Trunc(a) == IF a[1] >= 0 THEN a[1] \div a[2] ELSE -((-a[1]) \div a[2])

\* Python 3 round(x) on a float: nearest integer, ties to the even one.
Round(a) ==
    LET fl  == a[1] \div a[2]
        rem == a[1] - fl * a[2]
    IN  IF 2 * rem < a[2] THEN fl
        ELSE IF 2 * rem > a[2] THEN fl + 1
        ELSE IF fl % 2 = 0 THEN fl ELSE fl + 1

Min(a, b) == IF a <= b THEN a ELSE b

Max(a, b) == IF a >= b THEN a ELSE b

(***************************************************************************)
(* Bounds of the model.                                                    *)
(***************************************************************************)
\* Largest duration (ms) a medium of the model reports.
MaxDuration == 40

\* Largest |frame_offset| handed to skip_frames.
MaxSkip == 2

\* What QMediaMetaData.VideoFrameRate may hold for a medium: no value, zero,
\* a negative value, or a positive rate (frames per second, as a rational).
NoRate == [present |-> FALSE, rate |-> <<0, 1>>]

HasRate(r) == [present |-> TRUE, rate |-> r]

\* The files offered to load(), and the frame-rate metadata of each.
Paths == {"norate.avi", "zero.mp4", "negative.mp4", "fps60.mp4"}

MediumFrameRate(path) ==
    CASE path = "zero.mp4" -> HasRate(<<0, 1>>)
      [] path = "negative.mp4" -> HasRate(<<-1, 1>>)
      [] path = "fps60.mp4" -> HasRate(<<60, 1>>)
      [] OTHER -> NoRate

\* Durations (ms) the backend reports.
Durations == {0, MaxDuration}

\* Positions (ms) the backend reports while playing, and the positions
\* handed to set_position (below 0 and above the duration included).
ReportedPositions == {0, 10, MaxDuration - 20, MaxDuration}

SeekInputs == {-5, 0, 10, MaxDuration - 20, MaxDuration + 20}

FrameOffsets == (-MaxSkip)..MaxSkip

MediaStatuses ==
    {"NoMedia", "LoadingMedia", "LoadedMedia", "BufferedMedia", "EndOfMedia", "InvalidMedia"}

ErrorKinds == {"NoError", "ResourceError", "FormatError"}

ErrorStrings == {"", "boom"}

(***************************************************************************)
(* State.                                                                  *)
(***************************************************************************)
VARIABLES
    \* VideoPlayerController
    frame_interval_ms,  \* self._frame_interval_ms (rational, ms)
    current_path,       \* self._current_path
    loop_enabled,       \* self._loop_enabled
    player,             \* the backend behind self._player
    signals,            \* signals the controller emitted in the last handler
    calls,              \* backend calls the controller made in the last handler
    lastOp,             \* the last operation, its argument, the value before
    \* MainWindow: the frame/time conversion
    frame_rate,         \* self._frame_rate (rational, frames per second)
    current_frame,      \* self._current_frame
    conv,               \* a frame index on its way to milliseconds and back
    \* VideoView
    hand_enabled,       \* self._hand_enabled
    current_tool,       \* self._current_tool
    line_start_point,   \* self._line_start_point
    line_preview_item,  \* self._line_preview_item: the previewed line
    line_is_dragging,   \* self._line_is_dragging
    line_guide_enabled, \* self._line_guide_enabled
    angle_points,       \* self._angle_points
    angle_preview_lines, \* self._angle_preview_lines: the previewed lines
    shift_pressed,      \* self._shift_pressed
    emitted,            \* signals the view emitted in the last handler
    lastEvent,          \* the last event handled, and the gesture it met
    \* MainWindow: saved frames, annotations, tree and tool buttons
    media_loaded,       \* self._media_loaded
    saved_frames,       \* self._saved_frames
    annotations,        \* self._annotations
    annotation_counter, \* self._annotation_counter
    tree,               \* the items under self._tree_root
    selected,           \* self._frames_tree.currentItem(), as a path
    canvas_annotations, \* what the view drew at the last set_annotations
    checked_tool,       \* the checked button of self._tool_group
    guide_preference,   \* self._line_guide_enabled
    slider_is_active,   \* self._slider_is_active
    slider_value,       \* self._position_slider.value()
    slider_maximum,     \* self._position_slider.maximum()
    lastAction          \* the last handler of the window that ran

ctlVars == <<frame_interval_ms, current_path, loop_enabled, player, signals, calls, lastOp>>

convVars == <<frame_rate, current_frame, conv>>

viewVars ==
    <<hand_enabled, current_tool, line_start_point, line_preview_item, line_is_dragging,
      line_guide_enabled, angle_points, angle_preview_lines, shift_pressed, emitted, lastEvent>>

storeVars ==
    <<media_loaded, saved_frames, annotations, annotation_counter, tree, selected,
      canvas_annotations, checked_tool, guide_preference, slider_is_active, slider_value,
      slider_maximum, lastAction>>

sliderVars == <<slider_is_active, slider_value, slider_maximum>>

vars == <<ctlVars, convVars, viewVars, storeVars>>

\* What the operations of each component leave alone.
notCtlVars == <<convVars, viewVars, storeVars>>

notConvVars == <<ctlVars, viewVars, storeVars>>

notViewVars == <<ctlVars, convVars, storeVars>>

(***************************************************************************)
(* The backend (QMediaPlayer), as the controller drives it.                *)
(***************************************************************************)
\* Qt's QMediaPlayer.Infinite (the enum's value is -1).
Infinite == -1

\* setPosition stores the position it is given.
setPosition(p, value) == [p EXCEPT !.position = value]

\* setSource opens a medium; the medium brings its own frame-rate metadata.
setSource(p, source) == [p EXCEPT !.source = source, !.frame_rate = MediumFrameRate(source)]

\* setLoops stores the loop count.
setLoops(p, n) == [p EXCEPT !.loops = n]

Call(name, arg) == [fn |-> name, arg |-> arg]

Signal(name, arg) == [sig |-> name, arg |-> arg]

\* The last operation and its argument; `before` is the value the operation
\* started from: the position for skip_frames, the frame interval for a
\* media status (0 for the other operations).
Op(name, arg) == [op |-> name, arg |-> arg, before |-> 0]

OpFrom(name, arg, value) == [op |-> name, arg |-> arg, before |-> value]

(***************************************************************************)
(* VideoPlayerController.                                                  *)
(***************************************************************************)
DEFAULT_FRAME_RATE == <<30, 1>>

\* __init__: the interval of the default rate.
InitialFrameInterval == RDiv(FromInt(1000), DEFAULT_FRAME_RATE)

\* Mutant of apply_loop_setting: always asks for one play-through.
apply_loop_setting_once(p, enabled) == IF p.hasSetLoops THEN setLoops(p, 1) ELSE p

\* _apply_loop_setting: the backend after the call, and the calls made.
apply_loop_setting(p, enabled) ==
    IF p.hasSetLoops
    THEN IF enabled THEN setLoops(p, Infinite) ELSE setLoops(p, 1)
    ELSE p

apply_loop_calls(p, enabled) ==
    IF p.hasSetLoops
    THEN <<Call("setLoops", IF enabled THEN Infinite ELSE 1)>>
    ELSE <<>>

\* Mutant of skip_delta_ms: rounds to the nearest integer instead of truncating.
skip_delta_ms_rounded(frame_offset, interval) == Round(RMul(FromInt(frame_offset), interval))

\* skip_frames: delta_ms = int(frame_offset * self._frame_interval_ms).
skip_delta_ms(frame_offset, interval) == Trunc(RMul(FromInt(frame_offset), interval))

\* Mutant of skip_new_position: forgets the upper clamp.
skip_new_position_uncapped(duration, position, delta_ms) == Max(0, position + delta_ms)

\* skip_frames: max(0, min(duration, position + delta_ms)).
skip_new_position(duration, position, delta_ms) ==
    Max(0, Min(duration, position + delta_ms))

\* Mutant of metadata_frame_rate: without `if frame_rate <= 0`.
metadata_frame_rate_unchecked(meta) ==
    IF meta.present /\ meta.rate[1] # 0 THEN meta.rate ELSE DEFAULT_FRAME_RATE

\* _update_frame_interval: the rate chosen from the metadata value.
\* `float(v) if v else DEFAULT`, then `if frame_rate <= 0: DEFAULT`.
metadata_frame_rate(meta) ==
    IF meta.present /\ meta.rate[1] # 0
    THEN IF RLe(meta.rate, FromInt(0)) THEN DEFAULT_FRAME_RATE ELSE meta.rate
    ELSE DEFAULT_FRAME_RATE

\* Mutant of update_frame_interval: ignores the metadata.
update_frame_interval_ignoring(meta) == RDiv(FromInt(1000), DEFAULT_FRAME_RATE)

\* Mutant of update_frame_interval: keeps the current interval when the
\* metadata has no usable rate.
update_frame_interval_keeping(meta) ==
    IF meta.present /\ meta.rate[1] > 0
    THEN RDiv(FromInt(1000), meta.rate)
    ELSE frame_interval_ms

\* _update_frame_interval: self._frame_interval_ms = 1000.0 / frame_rate.
update_frame_interval(meta) == RDiv(FromInt(1000), metadata_frame_rate(meta))

\* _handle_error: error_string or the generic message.
error_message(error_string) ==
    IF error_string = "" THEN "Erro ao carregar o video." ELSE error_string

\* Mutant of error_signals: raises the event for every kind.
error_signals_ungated(error, error_string) ==
    <<Signal("error_occurred", error_message(error_string))>>

\* _handle_error: the signals raised (none for QMediaPlayer.NoError).
error_signals(error, error_string) ==
    IF error # "NoError"
    THEN <<Signal("error_occurred", error_message(error_string))>>
    ELSE <<>>

\* Mutant of end_of_media_policy: acts whether or not looping is enabled.
end_of_media_policy_always(status, looping) == status = "EndOfMedia"

\* _handle_media_status: the end-of-media policy acts on EndOfMedia unless looping.
end_of_media_policy(status, looping) == status = "EndOfMedia" /\ ~looping

\* load(file_path)
load(path) ==
    LET opened == setSource(player, path) IN
    /\ current_path' = path
    /\ player' = apply_loop_setting(opened, loop_enabled)
    /\ calls' = <<Call("setSource", path)>> \o apply_loop_calls(opened, loop_enabled)
    /\ signals' = <<>>
    /\ lastOp' = Op("load", path)
    /\ UNCHANGED notCtlVars
    /\ UNCHANGED <<frame_interval_ms, loop_enabled>>

\* play()
play ==
    /\ calls' = <<Call("play", 0)>>
    /\ signals' = <<>>
    /\ lastOp' = Op("play", 0)
    /\ UNCHANGED notCtlVars
    /\ UNCHANGED <<frame_interval_ms, current_path, loop_enabled, player>>

\* pause()
pause ==
    /\ calls' = <<Call("pause", 0)>>
    /\ signals' = <<>>
    /\ lastOp' = Op("pause", 0)
    /\ UNCHANGED notCtlVars
    /\ UNCHANGED <<frame_interval_ms, current_path, loop_enabled, player>>

\* set_position(position_ms)
set_position(position_ms) ==
    LET target == IF position_ms < 0 THEN 0 ELSE position_ms IN
    /\ player' = setPosition(player, target)
    /\ calls' = <<Call("setPosition", target)>>
    /\ signals' = <<>>
    /\ lastOp' = Op("set_position", position_ms)
    /\ UNCHANGED notCtlVars
    /\ UNCHANGED <<frame_interval_ms, current_path, loop_enabled>>

\* Mutant of skip_is_noop: the duration is not looked at.
skip_is_noop_zero_only(frame_offset, duration) == frame_offset = 0

\* skip_frames: `if frame_offset == 0 or self._player.duration() <= 0: return`
skip_is_noop(frame_offset, duration) == frame_offset = 0 \/ duration <= 0

\* skip_frames(frame_offset)
skip_frames(frame_offset) ==
    /\ IF skip_is_noop(frame_offset, player.duration)
       THEN /\ calls' = <<>>
            /\ UNCHANGED player
       ELSE LET delta_ms == skip_delta_ms(frame_offset, frame_interval_ms)
                new_position == skip_new_position(player.duration, player.position, delta_ms)
            IN  /\ player' = setPosition(player, new_position)
                /\ calls' = <<Call("setPosition", new_position)>>
    /\ signals' = <<>>
    /\ lastOp' = OpFrom("skip_frames", frame_offset, player.position)
    /\ UNCHANGED notCtlVars
    /\ UNCHANGED <<frame_interval_ms, current_path, loop_enabled>>

\* set_looping(enabled)
set_looping(enabled) ==
    /\ loop_enabled' = enabled
    /\ player' = apply_loop_setting(player, enabled)
    /\ calls' = apply_loop_calls(player, enabled)
    /\ signals' = <<>>
    /\ lastOp' = Op("set_looping", enabled)
    /\ UNCHANGED notCtlVars
    /\ UNCHANGED <<frame_interval_ms, current_path>>

\* _handle_media_status(status), the slots of its signals aside
handle_media_status_in_controller(status) ==
    /\ lastOp' = OpFrom("mediaStatusChanged", status, frame_interval_ms)
    /\ IF status \in {"BufferedMedia", "LoadedMedia"}
       THEN /\ frame_interval_ms' = update_frame_interval(player.frame_rate)
            /\ signals' = <<Signal("media_status_changed", status),
                            Signal("frame_rate_changed", metadata_frame_rate(player.frame_rate))>>
            /\ calls' = <<Call("metaData", 0)>>
            /\ UNCHANGED player
       ELSE IF end_of_media_policy(status, loop_enabled)
       THEN /\ signals' = <<Signal("media_status_changed", status)>>
            /\ IF player.duration > 0
               THEN /\ player' = setPosition(player, player.duration)
                    /\ calls' = <<Call("setPosition", player.duration), Call("pause", 0)>>
               ELSE /\ UNCHANGED player
                    /\ calls' = <<Call("pause", 0)>>
            /\ UNCHANGED frame_interval_ms
       ELSE /\ signals' = <<Signal("media_status_changed", status)>>
            /\ calls' = <<>>
            /\ UNCHANGED <<frame_interval_ms, player>>
    /\ UNCHANGED <<current_path, loop_enabled>>

\* _handle_media_status(status), connected to the backend's mediaStatusChanged
handle_media_status(status) ==
    handle_media_status_in_controller(status) /\ UNCHANGED notCtlVars

\* _handle_error(error, error_string), connected to the backend's errorOccurred
handle_error(error, error_string) ==
    /\ signals' = error_signals(error, error_string)
    /\ calls' = <<>>
    /\ lastOp' = Op("errorOccurred", <<error, error_string>>)
    /\ UNCHANGED notCtlVars
    /\ UNCHANGED <<frame_interval_ms, current_path, loop_enabled, player>>

\* The backend's positionChanged, relayed as position_changed.
positionChanged(position_ms) ==
    /\ player' = [player EXCEPT !.position = position_ms]
    /\ signals' = <<Signal("position_changed", position_ms)>>
    /\ calls' = <<>>
    /\ lastOp' = Op("positionChanged", position_ms)
    /\ UNCHANGED notCtlVars
    /\ UNCHANGED <<frame_interval_ms, current_path, loop_enabled>>

\* The backend's durationChanged, relayed as duration_changed.
durationChanged(duration_ms) ==
    /\ player' = [player EXCEPT !.duration = duration_ms]
    /\ signals' = <<Signal("duration_changed", duration_ms)>>
    /\ calls' = <<>>
    /\ lastOp' = Op("durationChanged", duration_ms)
    /\ UNCHANGED notCtlVars
    /\ UNCHANGED <<frame_interval_ms, current_path, loop_enabled>>

(***************************************************************************)
(* MainWindow: the frame/time conversion (_frame_to_ms, _update_frame_label) *)
(* as _on_tree_item_clicked chains them: a saved frame index is converted  *)
(* to a position, and the position back to the current frame.              *)
(***************************************************************************)
\* Largest frame index converted.
MaxFrame == 20

\* Frame rates (frames per second) the conversion is run with, all positive.
FrameRates ==
    {<<1, 2>>, <<1, 1>>, <<24, 1>>, <<2997, 100>>, <<30, 1>>, <<60, 1>>,
     <<1000, 1>>, <<1500, 1>>, <<2000, 1>>}

\* `if self._frame_rate <= 0: self._frame_rate = 30.0`
positive_frame_rate(rate) == IF RLe(rate, FromInt(0)) THEN <<30, 1>> ELSE rate

\* _frame_to_ms: int(round(frame * (1000.0 / self._frame_rate)))
frame_to_ms(frame, rate) ==
    Round(RMul(FromInt(frame), RDiv(FromInt(1000), positive_frame_rate(rate))))

\* Mutant of frame_of: truncates instead of rounding.
frame_of_truncated(position_ms, rate) ==
    Trunc(RDiv(FromInt(position_ms), RDiv(FromInt(1000), positive_frame_rate(rate))))

\* _update_frame_label: int(round(position_ms / (1000.0 / self._frame_rate)))
frame_of(position_ms, rate) ==
    Round(RDiv(FromInt(position_ms), RDiv(FromInt(1000), positive_frame_rate(rate))))

\* _on_tree_item_clicked: position_ms = self._frame_to_ms(int(frame))
convert_frame_to_ms ==
    /\ conv.pc = "frame"
    /\ conv' = [conv EXCEPT !.position_ms = frame_to_ms(conv.frame, frame_rate), !.pc = "ms"]
    /\ frame_rate' = positive_frame_rate(frame_rate)
    /\ UNCHANGED <<current_frame, notConvVars>>

\* _on_tree_item_clicked: self._update_frame_label(position_ms)
update_frame_label ==
    /\ conv.pc = "ms"
    /\ current_frame' = frame_of(conv.position_ms, frame_rate)
    /\ frame_rate' = positive_frame_rate(frame_rate)
    /\ conv' = [conv EXCEPT !.pc = "done"]
    /\ UNCHANGED notConvVars

(***************************************************************************)
(* VideoView: the gesture state machine.  Pointer positions are given in   *)
(* content space (the result of _map_to_video_coords), as rational points  *)
(* <<x, y>>; an optional point or line is <<>> or a one-element sequence.  *)
(***************************************************************************)
\* The content bounds: self._video_item.boundingRect() is (0, 0, width, height).
VideoWidth == 8

VideoHeight == 4

\* mouseReleaseEvent: `if distance > 5`.
LineDragThreshold == 5

Tools == {"selection", "hand", "point", "line", "angle"}

Buttons == {"LeftButton", "RightButton"}

Keys == {"Key_Shift", "Key_A"}

\* Pointer positions of the model: left of the content bounds, inside them,
\* on their bottom edge, and beyond their bottom right corner.
PointerPositions ==
    {<<FromInt(-2), FromInt(1)>>,
     <<FromInt(VideoWidth - 5), FromInt(1)>>,
     <<FromInt(VideoWidth - 5), FromInt(VideoHeight)>>,
     <<FromInt(VideoWidth + 3), FromInt(VideoHeight + 2)>>}

boundingRect ==
    [left |-> FromInt(0), top |-> FromInt(0),
     right |-> FromInt(VideoWidth), bottom |-> FromInt(VideoHeight)]

None == <<>>

Some(v) == <<v>>

\* Mutant of is_inside_video: the edges of the rectangle are left out.
is_inside_video_exclusive(x, y) ==
    /\ RLt(boundingRect.left, x)
    /\ RLt(x, boundingRect.right)
    /\ RLt(boundingRect.top, y)
    /\ RLt(y, boundingRect.bottom)

\* _is_inside_video: rect.contains(x, y), edges included.
is_inside_video(x, y) ==
    /\ RLe(boundingRect.left, x)
    /\ RLe(x, boundingRect.right)
    /\ RLe(boundingRect.top, y)
    /\ RLe(y, boundingRect.bottom)

\* Mutant of clamp_to_video_bounds: the point is returned as given.
clamp_to_video_bounds_identity(x, y) == <<x, y>>

\* _clamp_to_video_bounds
clamp_to_video_bounds(x, y) ==
    <<RMax(boundingRect.left, RMin(boundingRect.right, x)),
      RMax(boundingRect.top, RMin(boundingRect.bottom, y))>>

\* Mutant of project_to_perpendicular: projects onto the line p1-p2 itself.
project_to_perpendicular_along(p1, p2, x, y) ==
    LET dx == RSub(p2[1], p1[1])
        dy == RSub(p2[2], p1[2])
        length2 == RAdd(RMul(dx, dx), RMul(dy, dy))
        dot == RAdd(RMul(RSub(x, p2[1]), dx), RMul(RSub(y, p2[2]), dy))
    IN  IF RLt(RAbs(dx), <<1, 1000>>) /\ RLt(RAbs(dy), <<1, 1000>>)
        THEN <<x, y>>
        ELSE <<RAdd(p2[1], RDiv(RMul(dot, dx), length2)),
               RAdd(p2[2], RDiv(RMul(dot, dy), length2))>>

\* _project_to_perpendicular: the projection of (x, y) onto the line through
\* p2 perpendicular to p1-p2.  With perp = (-dy, dx), the code's
\* p2 + ((v . perp/|perp|) * perp/|perp|) equals p2 + (v . perp / |perp|^2) * perp.
project_to_perpendicular(p1, p2, x, y) ==
    LET dx == RSub(p2[1], p1[1])
        dy == RSub(p2[2], p1[2])
        perp_dx == RSub(FromInt(0), dy)
        perp_dy == dx
        length2 == RAdd(RMul(perp_dx, perp_dx), RMul(perp_dy, perp_dy))
        vx == RSub(x, p2[1])
        vy == RSub(y, p2[2])
        dot == RAdd(RMul(vx, perp_dx), RMul(vy, perp_dy))
    IN  IF RLt(RAbs(dx), <<1, 1000>>) /\ RLt(RAbs(dy), <<1, 1000>>)
        THEN <<x, y>>
        ELSE <<RAdd(p2[1], RDiv(RMul(dot, perp_dx), length2)),
               RAdd(p2[2], RDiv(RMul(dot, perp_dy), length2))>>

\* An angle in degrees within [0, 180] is represented by its cosine, as the
\* sign and the square of the cosine (both rational): 0 degrees is (1, 1),
\* 90 degrees is (0, 0), 180 degrees is (-1, 1).  The value -1 that signals
\* "no angle being drawn" is NoAngle.
AngleOfCosine(sign, squared) == [negative |-> FALSE, cos_sign |-> sign, cos_squared |-> squared]

ZeroAngle == AngleOfCosine(1, <<1, 1>>)

NoAngle == [negative |-> TRUE, cos_sign |-> 0, cos_squared |-> <<0, 1>>]

\* magnitude < 0.001 for a vector of squared length n/d: n/d < 1/1000000,
\* that is n * 1000000 < d (computed without leaving 32 bits).
ShorterThanThousandth(squared) == squared[1] <= (squared[2] - 1) \div 1000000

\* _calculate_angle: the angle at p2 formed by p1-p2-p3 (0.0 when a vector is
\* shorter than 0.001).
calculate_angle(p1, p2, p3) ==
    LET v1x == RSub(p1[1], p2[1])
        v1y == RSub(p1[2], p2[2])
        v2x == RSub(p3[1], p2[1])
        v2y == RSub(p3[2], p2[2])
        mag1sq == RAdd(RMul(v1x, v1x), RMul(v1y, v1y))
        mag2sq == RAdd(RMul(v2x, v2x), RMul(v2y, v2y))
        dot == RAdd(RMul(v1x, v2x), RMul(v1y, v2y))
    IN  IF ShorterThanThousandth(mag1sq) \/ ShorterThanThousandth(mag2sq)
        THEN ZeroAngle
        ELSE AngleOfCosine(IF dot[1] > 0 THEN 1 ELSE IF dot[1] < 0 THEN -1 ELSE 0,
                           RDiv(RMul(dot, dot), RMul(mag1sq, mag2sq)))

gestureVars ==
    <<line_start_point, line_preview_item, line_is_dragging, angle_points, angle_preview_lines>>

\* The last event the view handled, its argument, and the gesture it met.
Event(name, arg) ==
    [ev |-> name, arg |-> arg,
     before |-> [tool |-> current_tool, start |-> line_start_point,
                 dragging |-> line_is_dragging, points |-> angle_points]]

\* Mutant of cancels_drawing: a tool switch never cancels.
cancels_drawing_never(old_tool, tool) == FALSE

\* set_current_tool: `if self._current_tool != tool`.
cancels_drawing(old_tool, tool) == old_tool # tool

\* Mutant of angle_points_after_click: stores the new point first.
angle_points_after_click_reversed(points, p) == <<p>> \o points

\* mousePressEvent: self._angle_points.append(QPointF(x, y)).
angle_points_after_click(points, p) == Append(points, p)

\* Mutant of second_click_line: the end point is not clamped.
second_click_line_unclamped(start, x, y) == <<start, <<x, y>>>>

\* mousePressEvent: the line the second click completes, from the recorded
\* start to the click clamped to the bounds.
second_click_line(start, x, y) == <<start, clamp_to_video_bounds(x, y)>>

\* set_hand_mode(enabled)
set_hand_mode(enabled) ==
    /\ hand_enabled' = enabled
    /\ emitted' = <<>>
    /\ lastEvent' = Event("set_hand_mode", enabled)
    /\ UNCHANGED <<current_tool, line_guide_enabled, shift_pressed, gestureVars, notViewVars>>

\* set_current_tool(tool), with _cancel_line_drawing and _cancel_angle_drawing
set_current_tool(tool) ==
    /\ IF cancels_drawing(current_tool, tool)
       THEN /\ line_start_point' = None
            /\ line_is_dragging' = FALSE
            /\ line_preview_item' = None
            /\ angle_points' = <<>>
            /\ angle_preview_lines' = <<>>
            /\ emitted' = <<Signal("angle_preview_changed", NoAngle)>>
       ELSE /\ emitted' = <<>>
            /\ UNCHANGED gestureVars
    /\ current_tool' = tool
    /\ lastEvent' = Event("set_current_tool", tool)
    /\ UNCHANGED <<hand_enabled, line_guide_enabled, shift_pressed, notViewVars>>

\* set_line_guide_enabled(enabled)
set_line_guide_enabled(enabled) ==
    /\ line_guide_enabled' = enabled
    /\ emitted' = <<>>
    /\ lastEvent' = Event("set_line_guide_enabled", enabled)
    /\ UNCHANGED <<hand_enabled, current_tool, shift_pressed, gestureVars, notViewVars>>

\* keyPressEvent(event)
keyPressEvent(key) ==
    /\ shift_pressed' = IF key = "Key_Shift" THEN TRUE ELSE shift_pressed
    /\ emitted' = <<>>
    /\ lastEvent' = Event("keyPressEvent", key)
    /\ UNCHANGED <<hand_enabled, current_tool, line_guide_enabled, gestureVars, notViewVars>>

\* keyReleaseEvent(event)
keyReleaseEvent(key) ==
    /\ shift_pressed' = IF key = "Key_Shift" THEN FALSE ELSE shift_pressed
    /\ emitted' = <<>>
    /\ lastEvent' = Event("keyReleaseEvent", key)
    /\ UNCHANGED <<hand_enabled, current_tool, line_guide_enabled, gestureVars, notViewVars>>

\* mousePressEvent(event): the button and the position in content space, in the view
mousePressEvent_in_view(button, pos) ==
    LET x == pos[1]
        y == pos[2]
        annotating == button = "LeftButton" /\ ~hand_enabled
        clamped == clamp_to_video_bounds(x, y)
    IN
    /\ lastEvent' = Event("mousePressEvent", <<button, pos>>)
    /\ UNCHANGED <<hand_enabled, current_tool, line_guide_enabled, shift_pressed>>
    /\ IF annotating /\ current_tool = "point" /\ is_inside_video(x, y)
       THEN /\ emitted' = <<Signal("annotation_requested", pos)>>
            /\ UNCHANGED gestureVars
       ELSE IF annotating /\ current_tool = "line" /\ line_start_point = None
               /\ is_inside_video(x, y)
       THEN /\ line_start_point' = Some(pos)
            /\ line_is_dragging' = TRUE
            /\ emitted' = <<>>
            /\ UNCHANGED <<line_preview_item, angle_points, angle_preview_lines>>
       ELSE IF annotating /\ current_tool = "line" /\ line_start_point # None
       THEN /\ emitted' = <<Signal("line_completed",
                                   second_click_line(line_start_point[1], x, y))>>
            /\ line_start_point' = None
            /\ line_is_dragging' = FALSE
            /\ line_preview_item' = None
            /\ UNCHANGED <<angle_points, angle_preview_lines>>
       ELSE IF annotating /\ current_tool = "angle" /\ Len(angle_points) = 0
               /\ is_inside_video(clamped[1], clamped[2])
       THEN /\ angle_points' = angle_points_after_click(angle_points, clamped)
            /\ emitted' = <<>>
            /\ UNCHANGED <<line_start_point, line_preview_item, line_is_dragging,
                           angle_preview_lines>>
       ELSE IF annotating /\ current_tool = "angle" /\ Len(angle_points) = 1
       THEN /\ angle_points' = angle_points_after_click(angle_points, clamped)
            /\ emitted' = <<>>
            /\ UNCHANGED <<line_start_point, line_preview_item, line_is_dragging,
                           angle_preview_lines>>
       ELSE IF annotating /\ current_tool = "angle" /\ Len(angle_points) = 2
       THEN LET p1 == angle_points[1]
                p2 == angle_points[2]
                q  == IF shift_pressed
                      THEN project_to_perpendicular(p1, p2, clamped[1], clamped[2])
                      ELSE clamped
                p3 == clamp_to_video_bounds(q[1], q[2])
            IN  /\ emitted' = <<Signal("angle_completed", <<p1, p2, p3>>),
                                Signal("angle_preview_changed", NoAngle)>>
                /\ angle_points' = <<>>
                /\ angle_preview_lines' = <<>>
                /\ UNCHANGED <<line_start_point, line_preview_item, line_is_dragging>>
       ELSE /\ emitted' = <<>>
            /\ UNCHANGED gestureVars

\* mousePressEvent, with no slot connected to the view's signals
mousePressEvent(button, pos) ==
    mousePressEvent_in_view(button, pos) /\ UNCHANGED notViewVars

\* mouseMoveEvent(event), with _update_line_preview and _update_angle_preview, in the view
mouseMoveEvent_in_view(pos) ==
    LET x == pos[1]
        y == pos[2]
    IN
    /\ lastEvent' = Event("mouseMoveEvent", pos)
    /\ UNCHANGED <<hand_enabled, current_tool, line_guide_enabled, shift_pressed>>
    /\ UNCHANGED <<line_start_point, line_is_dragging, angle_points>>
    /\ IF current_tool = "line" /\ line_start_point # None
       THEN /\ line_preview_item' =
                   IF line_guide_enabled \/ line_is_dragging
                   THEN Some(<<line_start_point[1], clamp_to_video_bounds(x, y)>>)
                   ELSE line_preview_item
            /\ emitted' = <<>>
            /\ UNCHANGED angle_preview_lines
       ELSE IF current_tool = "angle" /\ Len(angle_points) > 0
       THEN LET q == IF shift_pressed /\ Len(angle_points) = 2
                     THEN project_to_perpendicular(angle_points[1], angle_points[2], x, y)
                     ELSE pos
                end == clamp_to_video_bounds(q[1], q[2])
            IN  /\ IF Len(angle_points) = 1
                   THEN /\ angle_preview_lines' = <<<<angle_points[1], end>>>>
                        /\ emitted' = <<>>
                   ELSE /\ angle_preview_lines' =
                               <<<<angle_points[1], angle_points[2]>>, <<angle_points[2], end>>>>
                        /\ emitted' = <<Signal("angle_preview_changed",
                                   calculate_angle(angle_points[1], angle_points[2], end))>>
                /\ UNCHANGED line_preview_item
       ELSE /\ emitted' = <<>>
            /\ UNCHANGED <<line_preview_item, angle_preview_lines>>

\* mouseMoveEvent, with no slot connected to the view's signals
mouseMoveEvent(pos) ==
    mouseMoveEvent_in_view(pos) /\ UNCHANGED notViewVars

\* Mutant of drag_completes: a release at the threshold completes the line.
drag_completes_at_threshold(distance) == RLe(FromInt(LineDragThreshold), distance)

\* mouseReleaseEvent: `if distance > 5`.
drag_completes(distance) == RLt(FromInt(LineDragThreshold), distance)

\* mouseReleaseEvent(event), in the view
mouseReleaseEvent_in_view(button, pos) ==
    LET clamped == clamp_to_video_bounds(pos[1], pos[2])
        start == line_start_point[1]
        distance == RAdd(RAbs(RSub(clamped[1], start[1])), RAbs(RSub(clamped[2], start[2])))
    IN
    /\ lastEvent' = Event("mouseReleaseEvent", <<button, pos>>)
    /\ UNCHANGED <<hand_enabled, current_tool, line_guide_enabled, shift_pressed>>
    /\ UNCHANGED <<angle_points, angle_preview_lines>>
    /\ IF ~(hand_enabled /\ button = "LeftButton")
          /\ button = "LeftButton" /\ current_tool = "line"
          /\ line_start_point # None /\ line_is_dragging
       THEN IF drag_completes(distance)
            THEN /\ emitted' = <<Signal("line_completed", <<start, clamped>>)>>
                 /\ line_start_point' = None
                 /\ line_is_dragging' = FALSE
                 /\ line_preview_item' = None
            ELSE /\ emitted' = <<>>
                 /\ line_is_dragging' = FALSE
                 /\ line_preview_item' =
                        IF ~line_guide_enabled THEN None ELSE line_preview_item
                 /\ UNCHANGED line_start_point
       ELSE /\ emitted' = <<>>
            /\ UNCHANGED <<line_start_point, line_is_dragging, line_preview_item>>

\* mouseReleaseEvent, with no slot connected to the view's signals
mouseReleaseEvent(button, pos) ==
    mouseReleaseEvent_in_view(button, pos) /\ UNCHANGED notViewVars


(***************************************************************************)
(* MainWindow: saved frames, the annotation store and the frames tree.     *)
(***************************************************************************)
\* The most annotations created in a run of the model.
MaxAnnotations == 3

\* Largest number of annotations created where the gestures of the view are
\* modelled with the window.
MaxDrawn == 1

\* Largest number of annotations created where the rename dialog is modelled.
MaxRenamed == 2

\* Positions the backend reports, in milliseconds: frames 0 and 1 at 30 fps.
StorePositions == {0, 33}

\* A name that is absent: Python's None (`name.strip() or None` never stores
\* the empty string, which stands for None here).
NoName == ""

\* Texts typed into the rename dialog.
RenameTexts == {" knee "}

\* str.strip() on the texts of the model.
strip(text) == CASE text = " knee " -> "knee" [] text = " " -> "" [] OTHER -> text

AnnotationTypes == {"point", "line", "angle"}

\* Shapes the view hands over with its completion signals.
Pt(x, y) == <<FromInt(x), FromInt(y)>>

PointShapes == {Pt(3, 1)}

LineShapes == {<<Pt(3, 1), Pt(8, 1)>>}

AngleShapes == {<<Pt(0, 1), Pt(3, 1), Pt(3, 4)>>}

\* _calculate_angle_degrees: the angle at p2 formed by p1-p2-p3 (0.0 when a
\* vector is shorter than 0.001), represented as in calculate_angle.
calculate_angle_degrees(p1, p2, p3) ==
    LET v1x == RSub(p1[1], p2[1])
        v1y == RSub(p1[2], p2[2])
        v2x == RSub(p3[1], p2[1])
        v2y == RSub(p3[2], p2[2])
        mag1sq == RAdd(RMul(v1x, v1x), RMul(v1y, v1y))
        mag2sq == RAdd(RMul(v2x, v2x), RMul(v2y, v2y))
        dot == RAdd(RMul(v1x, v2x), RMul(v1y, v2y))
    IN  IF ShorterThanThousandth(mag1sq) \/ ShorterThanThousandth(mag2sq)
        THEN ZeroAngle
        ELSE AngleOfCosine(IF dot[1] > 0 THEN 1 ELSE IF dot[1] < 0 THEN -1 ELSE 0,
                           RDiv(RMul(dot, dot), RMul(mag1sq, mag2sq)))

\* self._annotations.get(frame, [])
annotations_get(store, frame) == IF frame \in DOMAIN store THEN store[frame] ELSE <<>>

\* any(entry["frame"] == frame for entry in self._saved_frames)
frame_is_saved(frames, frame) == \E i \in 1..Len(frames) : frames[i].frame = frame

\* Mutant of sort_by_frame: the list is left in the order of insertion.
sort_by_frame_none(frames) == frames

\* self._saved_frames.sort(key=lambda e: e["frame"]); frame numbers are unique.
sort_by_frame(frames) ==
    [i \in 1..Len(frames) |->
        frames[CHOOSE k \in 1..Len(frames) :
                   Cardinality({m \in 1..Len(frames) : frames[m].frame < frames[k].frame}) = i - 1]]

\* The saved frames after "ensure frame exists in saved_frames".
ensure_saved(frames, frame) ==
    IF frame_is_saved(frames, frame)
    THEN frames
    ELSE sort_by_frame(Append(frames, [frame |-> frame, name |-> NoName]))

\* Mutant of store_append: the annotation is put at the head of the list.
store_append_first(store, frame, annotation) ==
    [f \in DOMAIN store \cup {frame} |->
        IF f = frame THEN <<annotation>> \o annotations_get(store, frame) ELSE store[f]]

\* self._annotations[frame].append(annotation), creating the list if needed.
store_append(store, frame, annotation) ==
    [f \in DOMAIN store \cup {frame} |->
        IF f = frame THEN Append(annotations_get(store, frame), annotation) ELSE store[f]]

\* Mutant of store_delete_frame: the annotations of the frame are kept.
store_delete_frame_keeping(store, frame) == store

\* del self._annotations[frame], if the frame is a key.
store_delete_frame(store, frame) == [f \in DOMAIN store \ {frame} |-> store[f]]

\* Mutant of list_remove: drops the last element, whatever x is.
list_remove_last(list, x) == SubSeq(list, 1, Len(list) - 1)

\* list.remove(x): drops the first element equal to x.
list_remove(list, x) ==
    IF \E i \in 1..Len(list) : list[i] = x
    THEN LET k == CHOOSE i \in 1..Len(list) :
                      list[i] = x /\ \A j \in 1..(i - 1) : list[j] # x
         IN  [i \in 1..(Len(list) - 1) |-> IF i < k THEN list[i] ELSE list[i + 1]]
    ELSE list

\* VideoView.set_annotations: the graphics drawn for a list of annotations
\* (_draw_point, _draw_line, _draw_angle read the type and the coordinates).
drawn(list) == [i \in 1..Len(list) |-> [type |-> list[i].type, shape |-> list[i].shape]]

\* Mutant of allocate_id: the ids of a type start again on every frame.
allocate_id_per_frame(counter, type) ==
    [counter EXCEPT ![type] =
        Len(SelectSeq(annotations_get(annotations, current_frame),
                      LAMBDA a : a.type = type)) + 1]

\* Mutant of allocate_id: one counter shared by all the types.
allocate_id_shared(counter, type) == [t \in DOMAIN counter |-> counter[t] + 1]

\* self._annotation_counter[type] += 1
allocate_id(counter, type) == [counter EXCEPT ![type] = @ + 1]

\* The data a tree item carries (Qt.UserRole).
FrameData(frame) == [type |-> "frame", frame |-> frame]

AnnotationData(frame, annotation) ==
    [type |-> "annotation", frame |-> frame, annotation |-> annotation]

\* _rebuild_frames_tree: one item per saved frame, with one child per
\* annotation of that frame.
frames_tree(frames, store) ==
    [i \in 1..Len(frames) |->
        [data |-> FrameData(frames[i].frame),
         children |->
             [j \in 1..Len(annotations_get(store, frames[i].frame)) |->
                 [data |-> AnnotationData(frames[i].frame,
                                          annotations_get(store, frames[i].frame)[j])]]]]

\* The current item of the tree is a path: <<>> (no item, or the root item,
\* which carries no data), <<i>> (a frame item) or <<i, j>> (an annotation item).
NoItem == <<>>

ItemPaths(t) ==
    {<<i>> : i \in 1..Len(t)}
        \cup UNION {{<<i, j>> : j \in 1..Len(t[i].children)} : i \in 1..Len(t)}

\* item.data(0, Qt.UserRole) of the item at a path.
item_data(t, path) ==
    IF Len(path) = 1 THEN t[path[1]].data ELSE t[path[1]].children[path[2]].data

\* Mutant of data_matches: annotations are told apart by id alone.
data_matches_by_id(stored_data, target_data) ==
    /\ stored_data.type = target_data.type
    /\ stored_data.frame = target_data.frame
    /\ stored_data.type = "annotation" =>
           stored_data.annotation.id = target_data.annotation.id

\* _select_tree_item_by_data.data_matches
data_matches(stored_data, target_data) ==
    /\ stored_data.type = target_data.type
    /\ stored_data.frame = target_data.frame
    /\ stored_data.type = "annotation" =>
           /\ stored_data.annotation.id = target_data.annotation.id
           /\ stored_data.annotation.type = target_data.annotation.type

\* Depth-first order of the items: a frame item before its children, the
\* children in order, then the next frame item.
comes_before(p, q) ==
    \/ p[1] < q[1]
    \/ p[1] = q[1] /\ Len(p) < Len(q)
    \/ p[1] = q[1] /\ Len(p) = 2 /\ Len(q) = 2 /\ p[2] < q[2]

\* _select_tree_item_by_data.find_item: the first matching item in
\* depth-first order, if any.
find_item(t, data) ==
    LET matching == {p \in ItemPaths(t) : data_matches(item_data(t, p), data)}
    IN  IF matching = {} THEN NoItem
        ELSE CHOOSE p \in matching : \A q \in matching \ {p} : comes_before(p, q)

\* _rebuild_frames_tree: the current item after the rebuild.  Taking the
\* children out of the tree leaves no data-carrying item current; the item
\* matching the data of the old current item, if any, is made current.
rebuilt_selection(old_tree, old_selected, new_tree) ==
    IF old_selected = NoItem THEN NoItem
    ELSE find_item(new_tree, item_data(old_tree, old_selected))

storeState ==
    <<media_loaded, saved_frames, annotations, annotation_counter, tree, selected>>

\* Videos opened in the model of the window.
StorePaths == {"norate.avi"}

StoreStatuses == {"InvalidMedia", "LoadedMedia"}

\* Tool buttons clicked in the model of the window.
StoreTools == {"selection", "point"}

\* What a handler of the window leaves of the controller when it makes no
\* call to it, and of the view when it makes no call to it.
ctlState == <<frame_interval_ms, current_path, loop_enabled, player>>

viewState == <<hand_enabled, current_tool, line_guide_enabled, shift_pressed, gestureVars>>

no_controller_call ==
    /\ calls' = <<>>
    /\ signals' = <<>>
    /\ lastOp' = Op("idle", 0)
    /\ UNCHANGED ctlState

no_view_call ==
    /\ emitted' = <<>>
    /\ lastEvent' = Event("idle", 0)
    /\ UNCHANGED viewState

\* The last handler of the window that ran, and its argument ("other" for
\* the handlers that never change the store; for a deletion, the data of the
\* deleted item and the annotations its frame had; for a load, the path,
\* and the checked tool and the gesture the load met).
Handled(name, arg) == [op |-> name, arg |-> arg]

\* The data of the current item, "None" when no item carries data.
selected_data == IF selected = NoItem THEN "None" ELSE item_data(tree, selected)

\* The view after set_hand_mode(hand) followed by set_current_tool for each
\* tool of `tools` in turn (the toggled handlers of the tool buttons).
view_tools_set(hand, tools) ==
    LET n == Len(tools)
        previous(i) == IF i = 1 THEN current_tool ELSE tools[i - 1]
        cancelling == {i \in 1..n : cancels_drawing(previous(i), tools[i])}
        earlier == \E i \in cancelling : i < n
    IN  /\ hand_enabled' = hand
        /\ current_tool' = tools[n]
        /\ IF cancelling # {}
           THEN /\ line_start_point' = None
                /\ line_is_dragging' = FALSE
                /\ line_preview_item' = None
                /\ angle_points' = <<>>
                /\ angle_preview_lines' = <<>>
           ELSE UNCHANGED gestureVars
        /\ emitted' = IF n \in cancelling
                      THEN <<Signal("angle_preview_changed", NoAngle)>>
                      ELSE <<>>
        /\ lastEvent' =
               [ev |-> "set_current_tool", arg |-> tools[n],
                before |-> [tool |-> previous(n),
                            start |-> IF earlier THEN None ELSE line_start_point,
                            dragging |-> IF earlier THEN FALSE ELSE line_is_dragging,
                            points |-> IF earlier THEN <<>> ELSE angle_points]]

\* The buttons of the exclusive tool group: those of the five tools, and the
\* Freehand and Brush buttons, which have no toggled slot.
ToolButtons == Tools \cup {"freehand", "brush"}

\* Mutant of unchecked_tools: the uncheck notification is not handled.
unchecked_tools_unhandled(checked) == <<>>

\* toggled(False) of the button that was checked: _on_hand_toggled,
\* _on_point_toggled, _on_line_toggled and _on_angle_toggled call
\* set_current_tool("selection"); _on_selection_toggled does nothing then.
unchecked_tools(checked) ==
    IF checked \in {"hand", "point", "line", "angle"} THEN <<"selection">> ELSE <<>>

\* toggled(True) of the newly checked button: set_current_tool(tool).
checked_tools(tool) ==
    IF tool \in {"freehand", "brush"} THEN <<>> ELSE <<tool>>

\* Checking the button of `tool` in the exclusive group while `checked` is
\* the checked one: the toggled(False) handler of the old button runs, then
\* the toggled(True) handler of the new one.
check_tool_button(checked, tool) ==
    LET tools == unchecked_tools(checked) \o checked_tools(tool) IN
    IF checked = tool \/ tools = <<>>
    THEN /\ emitted' = <<>>
         /\ lastEvent' = Event("idle", 0)
         /\ UNCHANGED <<hand_enabled, current_tool, gestureVars, line_guide_enabled>>
    ELSE /\ view_tools_set(IF checked_tools(tool) # <<>> THEN tool = "hand"
                           ELSE IF checked = "hand" THEN FALSE ELSE hand_enabled,
                           tools)
         /\ line_guide_enabled' =
                IF tool = "line" THEN guide_preference ELSE line_guide_enabled

\* _update_controls_enabled(False): self._video_view.set_hand_mode(False).
\* (setChecked(False) cannot uncheck the checked button of an exclusive group.)
controls_disabled ==
    /\ hand_enabled' = FALSE
    /\ emitted' = <<>>
    /\ lastEvent' = Event("set_hand_mode", FALSE)
    /\ UNCHANGED <<current_tool, gestureVars, line_guide_enabled>>

\* QSlider.setValue(value) on a slider of range 0..maximum.
set_value(value, maximum) == Max(0, Min(maximum, value))

\* Mutant of slider_guarded: the slider follows the backend during a drag too.
slider_guarded_never(active) == FALSE

\* _on_position_changed: `if not self._slider_is_active` guards setValue.
slider_guarded(active) == active

\* Mutant of tool_after_load: the checked tool button is left as it is.
tool_after_load_kept(checked) == checked

\* _load_video: self._selection_btn.setChecked(True).
tool_after_load(checked) == "selection"

\* _load_video(path)
load_video(path) ==
    /\ current_path' = path
    /\ player' = apply_loop_setting(apply_loop_setting(setSource(player, path), loop_enabled),
                                    loop_enabled)
    /\ calls' = <<Call("pause", 0), Call("setSource", path)>>
                    \o apply_loop_calls(player, loop_enabled)
                    \o apply_loop_calls(player, loop_enabled)
    /\ signals' = <<>>
    /\ lastOp' = Op("set_looping", loop_enabled)
    /\ UNCHANGED <<frame_interval_ms, loop_enabled>>
    /\ media_loaded' = TRUE
    /\ saved_frames' = <<>>
    /\ tree' = <<>>
    /\ selected' = NoItem
    /\ checked_tool' = tool_after_load(checked_tool)
    /\ check_tool_button(checked_tool, tool_after_load(checked_tool))
    /\ current_frame' = frame_of(0, frame_rate)
    /\ frame_rate' = positive_frame_rate(frame_rate)
    /\ lastAction' = Handled("load_video",
                              [path |-> path, tool |-> checked_tool,
                               start |-> line_start_point, points |-> angle_points])
    /\ slider_value' = set_value(0, slider_maximum)
    /\ UNCHANGED <<slider_is_active, slider_maximum>>
    /\ UNCHANGED <<annotations, annotation_counter, canvas_annotations, guide_preference,
                   shift_pressed, conv>>

\* The backend moves to position_ms and reports it; the controller relays
\* position_changed, and _on_position_changed(position_ms) runs.
on_position_changed(position_ms) ==
    /\ player' = [player EXCEPT !.position = position_ms]
    /\ signals' = <<Signal("position_changed", position_ms)>>
    /\ calls' = <<>>
    /\ lastOp' = Op("positionChanged", position_ms)
    /\ UNCHANGED <<frame_interval_ms, current_path, loop_enabled>>
    /\ current_frame' = frame_of(position_ms, frame_rate)
    /\ frame_rate' = positive_frame_rate(frame_rate)
    /\ canvas_annotations' = drawn(annotations_get(annotations, frame_of(position_ms, frame_rate)))
    /\ slider_value' = IF slider_guarded(slider_is_active) THEN slider_value
                       ELSE set_value(position_ms, slider_maximum)
    /\ UNCHANGED <<slider_is_active, slider_maximum>>
    /\ lastAction' = Handled("other", 0)
    /\ UNCHANGED <<storeState, checked_tool, guide_preference, conv>>
    /\ no_view_call

\* _on_duration_changed(duration_ms)
on_duration_changed(duration_ms) ==
    /\ duration_ms > 0 => player.source # "None"
    /\ slider_maximum' = Max(0, duration_ms)
    /\ slider_value' = set_value(slider_value, Max(0, duration_ms))
    /\ UNCHANGED slider_is_active
    /\ media_loaded' = (duration_ms > 0)
    /\ IF duration_ms > 0
       THEN no_view_call
       ELSE controls_disabled /\ UNCHANGED shift_pressed
    /\ lastAction' = Handled("other", 0)
    /\ UNCHANGED <<saved_frames, annotations, annotation_counter, tree, selected,
                   canvas_annotations, checked_tool, guide_preference, convVars>>
    /\ no_controller_call

\* _on_error(message) and _handle_invalid_media(): the same statements.
media_failed(name, arg) ==
    /\ media_loaded' = FALSE
    /\ saved_frames' = <<>>
    /\ tree' = <<>>
    /\ selected' = NoItem
    /\ controls_disabled
    /\ lastAction' = Handled(name, arg)
    /\ UNCHANGED <<annotations, annotation_counter, canvas_annotations, checked_tool,
                   guide_preference, sliderVars, shift_pressed, convVars>>
    /\ no_controller_call

\* _on_error(message)
on_error(message) == media_failed("on_error", message)

\* _on_media_status_changed(status)
on_media_status_changed(status) ==
    IF status = "InvalidMedia"
    THEN media_failed("on_media_status_changed", status)
    ELSE /\ lastAction' = Handled("other", 0)
         /\ UNCHANGED <<storeState, canvas_annotations, checked_tool, guide_preference, sliderVars,
                        convVars>>
         /\ no_controller_call
         /\ no_view_call

\* _on_frame_rate_changed(frame_rate), for the positive rates the controller
\* emits: the rate is stored (the slider step and the labels aside).
frame_rate_changed_slot(rate) ==
    /\ frame_rate' = IF RLt(FromInt(0), rate) THEN rate ELSE frame_rate
    /\ lastAction' = Handled("on_frame_rate_changed", rate)
    /\ UNCHANGED <<storeState, canvas_annotations, checked_tool, guide_preference, sliderVars,
                   current_frame, conv>>
    /\ no_view_call

\* The backend reports LoadedMedia or BufferedMedia: the controller relays the
\* status (_on_media_status_changed does nothing for these two), reads the
\* metadata and emits frame_rate_changed, and _on_frame_rate_changed runs.
on_frame_rate_changed(status) ==
    /\ status \in {"BufferedMedia", "LoadedMedia"}
    /\ player.source # "None"
    /\ handle_media_status_in_controller(status)
    /\ frame_rate_changed_slot(metadata_frame_rate(player.frame_rate))

\* The tree and its current item after _rebuild_frames_tree over a new store.
rebuild_frames_tree(frames, store) ==
    /\ tree' = frames_tree(frames, store)
    /\ selected' = rebuilt_selection(tree, selected, frames_tree(frames, store))

\* _create_point_annotation, _create_line_annotation, _create_angle_annotation:
\* the new annotation.
new_annotation(type, id, shape) ==
    IF type = "angle"
    THEN [type |-> type, id |-> id, name |-> NoName, shape |-> shape,
          angle |-> calculate_angle_degrees(shape[1], shape[2], shape[3])]
    ELSE [type |-> type, id |-> id, name |-> NoName, shape |-> shape]

\* _create_point_annotation, _create_line_annotation, _create_angle_annotation
create_annotation(type, shape) ==
    LET frame == current_frame
        frames == ensure_saved(saved_frames, frame)
        counter == allocate_id(annotation_counter, type)
        store == store_append(annotations, frame, new_annotation(type, counter[type], shape))
    IN  /\ saved_frames' = frames
        /\ annotation_counter' = counter
        /\ annotations' = store
        /\ rebuild_frames_tree(frames, store)
        /\ canvas_annotations' = drawn(annotations_get(store, frame))
        /\ UNCHANGED media_loaded

store_untouched ==
    UNCHANGED <<storeState, canvas_annotations>>

created_so_far ==
    annotation_counter["point"] + annotation_counter["line"] + annotation_counter["angle"]

\* Mutant of accepts_completion: completions are taken without a video too.
accepts_completion_always(loaded) == TRUE

\* `if not self._media_loaded: return` of the three completion slots.
accepts_completion(loaded) == loaded

\* _on_annotation_requested(x, y), the view aside
annotation_requested_slot(point) ==
    /\ IF accepts_completion(media_loaded) /\ checked_tool = "point"
       THEN create_annotation("point", point)
       ELSE store_untouched
    /\ lastAction' = Handled("on_annotation_requested", point)
    /\ UNCHANGED <<checked_tool, guide_preference, sliderVars, convVars>>
    /\ no_controller_call

\* _on_annotation_requested(x, y)
on_annotation_requested(point) ==
    /\ created_so_far < MaxAnnotations
    /\ annotation_requested_slot(point)
    /\ no_view_call

\* _on_line_completed(x1, y1, x2, y2), the view aside
line_completed_slot(line) ==
    /\ IF accepts_completion(media_loaded)
       THEN create_annotation("line", line)
       ELSE store_untouched
    /\ lastAction' = Handled("on_line_completed", line)
    /\ UNCHANGED <<checked_tool, guide_preference, sliderVars, convVars>>
    /\ no_controller_call

\* _on_line_completed(x1, y1, x2, y2)
on_line_completed(line) ==
    /\ created_so_far < MaxAnnotations
    /\ line_completed_slot(line)
    /\ no_view_call

\* _on_angle_completed(x1, y1, x2, y2, x3, y3), the view aside
angle_completed_slot(angle) ==
    /\ IF accepts_completion(media_loaded)
       THEN create_annotation("angle", angle)
       ELSE store_untouched
    /\ lastAction' = Handled("on_angle_completed", angle)
    /\ UNCHANGED <<checked_tool, guide_preference, sliderVars, convVars>>
    /\ no_controller_call

\* _on_angle_completed(x1, y1, x2, y2, x3, y3)
on_angle_completed(angle) ==
    /\ created_so_far < MaxAnnotations
    /\ angle_completed_slot(angle)
    /\ no_view_call

\* _save_current_frame()
save_current_frame ==
    /\ IF ~media_loaded \/ current_frame < 0 \/ frame_is_saved(saved_frames, current_frame)
       THEN UNCHANGED <<saved_frames, tree, selected>>
       ELSE /\ saved_frames' = ensure_saved(saved_frames, current_frame)
            /\ rebuild_frames_tree(ensure_saved(saved_frames, current_frame), annotations)
    /\ lastAction' =
           IF ~media_loaded \/ current_frame < 0 \/ frame_is_saved(saved_frames, current_frame)
           THEN Handled("other", 0)
           ELSE Handled("save_current_frame", current_frame)
    /\ UNCHANGED <<media_loaded, annotations, annotation_counter, canvas_annotations,
                   checked_tool, guide_preference, sliderVars, convVars>>
    /\ no_controller_call
    /\ no_view_call

\* A click on an item of the tree (the root item carries no data): Qt makes
\* it the current item, then _on_tree_item_clicked(item) runs.
on_tree_item_clicked(path) ==
    /\ selected' = path
    /\ IF path = NoItem \/ ~media_loaded
       THEN UNCHANGED convVars /\ no_controller_call
       ELSE LET position_ms == frame_to_ms(item_data(tree, path).frame, frame_rate)
                target == IF position_ms < 0 THEN 0 ELSE position_ms
            IN  /\ player' = setPosition(player, target)
                /\ calls' = <<Call("setPosition", target)>>
                /\ signals' = <<>>
                /\ lastOp' = Op("set_position", position_ms)
                /\ current_frame' = frame_of(position_ms, frame_rate)
                /\ frame_rate' = positive_frame_rate(frame_rate)
                /\ UNCHANGED <<frame_interval_ms, current_path, loop_enabled, conv>>
    /\ lastAction' = Handled("other", 0)
    /\ UNCHANGED <<media_loaded, saved_frames, annotations, annotation_counter, tree,
                   canvas_annotations, checked_tool, guide_preference, sliderVars>>
    /\ no_view_call

\* _on_slider_pressed(): the user presses the handle of the enabled slider.
on_slider_pressed ==
    /\ media_loaded
    /\ ~slider_is_active
    /\ slider_is_active' = TRUE
    /\ lastAction' = Handled("on_slider_pressed", 0)
    /\ UNCHANGED <<storeState, canvas_annotations, checked_tool, guide_preference,
                   slider_value, slider_maximum, convVars>>
    /\ no_controller_call
    /\ no_view_call

\* The user drags the handle to `value`: the slider takes the value, then
\* _on_slider_moved(value) runs.
on_slider_moved(value) ==
    /\ slider_is_active
    /\ value \in 0..slider_maximum
    /\ slider_value' = value
    /\ IF media_loaded
       THEN /\ player' = setPosition(player, value)
            /\ calls' = <<Call("setPosition", value)>>
            /\ signals' = <<>>
            /\ lastOp' = Op("set_position", value)
            /\ current_frame' = frame_of(value, frame_rate)
            /\ frame_rate' = positive_frame_rate(frame_rate)
            /\ UNCHANGED <<frame_interval_ms, current_path, loop_enabled, conv>>
       ELSE UNCHANGED convVars /\ no_controller_call
    /\ lastAction' = Handled("on_slider_moved", value)
    /\ UNCHANGED <<storeState, canvas_annotations, checked_tool, guide_preference,
                   slider_is_active, slider_maximum>>
    /\ no_view_call

\* _on_slider_released()
on_slider_released ==
    /\ slider_is_active
    /\ slider_is_active' = FALSE
    /\ player' = setPosition(player, slider_value)
    /\ calls' = <<Call("setPosition", slider_value)>>
    /\ signals' = <<>>
    /\ lastOp' = Op("set_position", slider_value)
    /\ lastAction' = Handled("on_slider_released", slider_value)
    /\ UNCHANGED <<frame_interval_ms, current_path, loop_enabled>>
    /\ UNCHANGED <<storeState, canvas_annotations, checked_tool, guide_preference,
                   slider_value, slider_maximum, convVars>>
    /\ no_view_call

\* The slots of the window connected to the signals the view emitted in the
\* event being handled (annotation_requested, line_completed,
\* angle_completed; _on_angle_preview_changed only shows or hides a label).
window_receives(sigs) ==
    LET completions == {i \in 1..Len(sigs) :
                           sigs[i].sig \in {"annotation_requested", "line_completed",
                                            "angle_completed"}}
        completed == sigs[CHOOSE i \in completions : TRUE]
    IN  IF completions = {}
        THEN /\ store_untouched
             /\ lastAction' = Handled("other", 0)
             /\ UNCHANGED <<checked_tool, guide_preference, sliderVars, convVars>>
             /\ no_controller_call
        ELSE /\ created_so_far < MaxDrawn
             /\ IF completed.sig = "annotation_requested"
                THEN annotation_requested_slot(completed.arg)
                ELSE IF completed.sig = "line_completed"
                THEN line_completed_slot(completed.arg)
                ELSE angle_completed_slot(completed.arg)

\* The mouse events of the view inside the window: the slots connected to
\* the signals of the view run before the event handler returns.
mousePressEvent_in_window(button, pos) ==
    mousePressEvent_in_view(button, pos) /\ window_receives(emitted')

mouseMoveEvent_in_window(pos) ==
    mouseMoveEvent_in_view(pos) /\ window_receives(emitted')

mouseReleaseEvent_in_window(button, pos) ==
    mouseReleaseEvent_in_view(button, pos) /\ window_receives(emitted')

\* `name.strip() or None`
stripped_name(text) == IF strip(text) = "" THEN NoName ELSE strip(text)

\* _select_annotation_in_tree(frame, ann_id, ann_type)
select_annotation_in_tree(t, fallback, frame, ann_id, ann_type) ==
    LET matching == {p \in ItemPaths(t) :
                        /\ Len(p) = 2
                        /\ t[p[1]].data.frame = frame
                        /\ item_data(t, p).annotation.id = ann_id
                        /\ item_data(t, p).annotation.type = ann_type}
    IN  IF matching = {} THEN fallback
        ELSE CHOOSE p \in matching : \A q \in matching \ {p} : comes_before(p, q)

\* Mutant of find_saved: a miss yields the first entry of the list.
find_saved_or_first(frames, frame) ==
    IF \E k \in 1..Len(frames) : frames[k].frame = frame
    THEN CHOOSE k \in 1..Len(frames) :
             frames[k].frame = frame /\ \A m \in 1..(k - 1) : frames[m].frame # frame
    ELSE IF frames = <<>> THEN 0 ELSE 1

\* next((e for e in self._saved_frames if e["frame"] == frame), None): the
\* index of the entry, 0 for None.
find_saved(frames, frame) ==
    IF \E k \in 1..Len(frames) : frames[k].frame = frame
    THEN CHOOSE k \in 1..Len(frames) :
             frames[k].frame = frame /\ \A m \in 1..(k - 1) : frames[m].frame # frame
    ELSE 0

\* _rename_selected_frame() from `data = item.data(0, Qt.UserRole)` on, with
\* the answer of the input dialog.
rename_item(data, ok, text) ==
    IF ~ok
    THEN UNCHANGED <<saved_frames, annotations, tree, selected>>
    ELSE IF data.type = "frame"
    THEN LET entry == find_saved(saved_frames, data.frame)
             frames == [i \in 1..Len(saved_frames) |->
                           IF i = entry
                           THEN [saved_frames[i] EXCEPT !.name = stripped_name(text)]
                           ELSE saved_frames[i]]
             rebuilt == frames_tree(frames, annotations)
         IN  IF entry = 0
             THEN UNCHANGED <<saved_frames, annotations, tree, selected>>
             ELSE /\ saved_frames' = frames
                  /\ tree' = rebuilt
                  /\ selected' = find_item(rebuilt, data)
                  /\ UNCHANGED annotations
    ELSE LET frame == data.frame
             ann_id == data.annotation.id
             ann_type == data.annotation.type
             list == annotations_get(annotations, frame)
             found == {i \in 1..Len(list) : list[i].id = ann_id /\ list[i].type = ann_type}
             first == CHOOSE i \in found : \A j \in found : i <= j
             store == [annotations EXCEPT
                          ![frame] = [@ EXCEPT ![first].name = stripped_name(text)]]
             rebuilt == frames_tree(saved_frames, store)
         IN  IF found = {}
             THEN UNCHANGED <<saved_frames, annotations, tree, selected>>
             ELSE /\ annotations' = store
                  /\ tree' = rebuilt
                  /\ selected' = select_annotation_in_tree(
                                     rebuilt, find_item(rebuilt, data), frame, ann_id, ann_type)
                  /\ UNCHANGED saved_frames

\* _rename_selected_frame(), with the answer of the input dialog
rename_selected_frame(ok, text) ==
    /\ lastAction' = Handled("rename_selected_frame", ok)
    /\ UNCHANGED <<media_loaded, annotation_counter, canvas_annotations, checked_tool,
                   guide_preference, sliderVars, convVars>>
    /\ no_controller_call
    /\ no_view_call
    /\ IF selected = NoItem
       THEN UNCHANGED <<saved_frames, annotations, tree, selected>>
       ELSE rename_item(selected_data, ok, text)

\* _delete_selected_frame() from `data = item.data(0, Qt.UserRole)` on.
delete_item(data) ==
    LET frame == data.frame
        frames == IF data.type = "frame"
                  THEN SelectSeq(saved_frames, LAMBDA e : e.frame # frame)
                  ELSE saved_frames
        store == IF data.type = "frame"
                 THEN store_delete_frame(annotations, frame)
                 ELSE IF frame \in DOMAIN annotations
                 THEN [annotations EXCEPT ![frame] = list_remove(@, data.annotation)]
                 ELSE annotations
    IN  /\ saved_frames' = frames
        /\ annotations' = store
        /\ tree' = frames_tree(frames, store)
        /\ selected' = find_item(frames_tree(frames, store), data)
        /\ canvas_annotations' = drawn(annotations_get(store, current_frame))

\* _delete_selected_frame()
delete_selected_frame ==
    /\ lastAction' = IF selected = NoItem THEN Handled("other", 0)
                      ELSE Handled("delete_selected_frame",
                                   [data |-> selected_data,
                                    list |-> annotations_get(annotations,
                                                             selected_data.frame)])
    /\ UNCHANGED <<media_loaded, annotation_counter, checked_tool, guide_preference, sliderVars,
                   convVars>>
    /\ no_controller_call
    /\ no_view_call
    /\ IF selected = NoItem
       THEN UNCHANGED <<saved_frames, annotations, tree, selected, canvas_annotations>>
       ELSE delete_item(selected_data)

\* The two commands run on an item whose data (a frame number, or a frame
\* number with an annotation) need not be in the store.
rename_addressed(data, ok, text) ==
    /\ lastAction' = Handled("rename_item", [data |-> data, ok |-> ok])
    /\ UNCHANGED <<media_loaded, annotation_counter, canvas_annotations, checked_tool,
                   guide_preference, sliderVars, convVars>>
    /\ no_controller_call
    /\ no_view_call
    /\ rename_item(data, ok, text)

delete_addressed(data) ==
    /\ lastAction' = Handled("delete_item", [data |-> data])
    /\ UNCHANGED <<media_loaded, annotation_counter, checked_tool, guide_preference, sliderVars,
                   convVars>>
    /\ no_controller_call
    /\ no_view_call
    /\ delete_item(data)

\* A click on a tool button of the exclusive group (the hand button is
\* enabled only while media is loaded).
tool_button_clicked(tool) ==
    /\ tool = "hand" => media_loaded
    /\ checked_tool' = tool
    /\ check_tool_button(checked_tool, tool)
    /\ lastAction' = Handled("other", 0)
    /\ UNCHANGED <<storeState, canvas_annotations, guide_preference, sliderVars, shift_pressed,
                   convVars>>
    /\ no_controller_call

(***************************************************************************)
(* Initial states and specifications.                                      *)
(***************************************************************************)
\* The state after VideoPlayerController.__init__, over either kind of backend
\* (one with native looping, one without setLoops).
InitController ==
    /\ frame_interval_ms = InitialFrameInterval
    /\ current_path = "None"
    /\ loop_enabled = FALSE
    /\ \E native \in BOOLEAN :
           player = [position |-> 0, duration |-> 0, frame_rate |-> NoRate,
                     source |-> "None", loops |-> 1, hasSetLoops |-> native]
    /\ signals = <<>>
    /\ calls = <<>>
    /\ lastOp = Op("init", 0)

\* MainWindow.__init__: the conversion state.
InitConversion ==
    /\ frame_rate = <<30, 1>>
    /\ current_frame = 0
    /\ conv = [frame |-> 0, position_ms |-> 0, pc |-> "idle"]

\* The state after VideoView.__init__.
InitView ==
    /\ hand_enabled = FALSE
    /\ current_tool = "selection"
    /\ line_start_point = None
    /\ line_preview_item = None
    /\ line_is_dragging = FALSE
    /\ line_guide_enabled = FALSE
    /\ angle_points = <<>>
    /\ angle_preview_lines = <<>>
    /\ shift_pressed = FALSE
    /\ emitted = <<>>
    /\ lastEvent = [ev |-> "init", arg |-> 0,
                    before |-> [tool |-> "selection", start |-> None,
                                dragging |-> FALSE, points |-> <<>>]]

\* MainWindow.__init__: nothing loaded, saved or annotated; the selection
\* button checked.
InitStore ==
    /\ media_loaded = FALSE
    /\ saved_frames = <<>>
    /\ annotations = [f \in {} |-> <<>>]
    /\ annotation_counter =
           [t \in {"point", "line", "angle", "freehand", "brush"} |-> 0]
    /\ tree = <<>>
    /\ selected = NoItem
    /\ canvas_annotations = <<>>
    /\ checked_tool = "selection"
    /\ guide_preference = FALSE
    /\ slider_is_active = FALSE
    /\ slider_value = 0
    /\ slider_maximum = 0
    /\ lastAction = Handled("init", 0)

\* The controller driven by its caller and by the backend's notifications.
NextController ==
    \/ \E path \in Paths : load(path)
    \/ play
    \/ pause
    \/ \E position_ms \in SeekInputs : set_position(position_ms)
    \/ \E frame_offset \in FrameOffsets : skip_frames(frame_offset)
    \/ \E enabled \in BOOLEAN : set_looping(enabled)
    \/ \E status \in MediaStatuses : handle_media_status(status)
    \/ \E error \in ErrorKinds, error_string \in ErrorStrings : handle_error(error, error_string)
    \/ \E position_ms \in ReportedPositions : positionChanged(position_ms)
    \/ \E duration_ms \in Durations : durationChanged(duration_ms)

\* A freshly built controller, beside an idle window and view.
InitOfController == InitController /\ InitConversion /\ InitView /\ InitStore

SpecController == InitOfController /\ [][NextController]_vars

\* The conversion applied to any frame index at any positive rate.
InitConverter ==
    /\ frame_rate \in FrameRates
    /\ current_frame = 0
    /\ \E frame \in 0..MaxFrame : conv = [frame |-> frame, position_ms |-> 0, pc |-> "frame"]

NextConverter ==
    \/ convert_frame_to_ms
    \/ update_frame_label

\* A frame index to convert, beside an idle controller (over a backend with
\* native looping) and an idle view.
InitOfConverter ==
    InitConverter /\ InitController /\ player.hasSetLoops /\ InitView /\ InitStore

SpecConverter == InitOfConverter /\ [][NextConverter]_vars

\* The view driven by its host (tool, hand mode, guide) and by input events.
NextView ==
    \/ \E enabled \in BOOLEAN : set_hand_mode(enabled)
    \/ \E tool \in Tools : set_current_tool(tool)
    \/ \E enabled \in BOOLEAN : set_line_guide_enabled(enabled)
    \/ \E key \in Keys : keyPressEvent(key)
    \/ \E key \in Keys : keyReleaseEvent(key)
    \/ \E button \in Buttons, pos \in PointerPositions : mousePressEvent(button, pos)
    \/ \E pos \in PointerPositions : mouseMoveEvent(pos)
    \/ \E button \in Buttons, pos \in PointerPositions : mouseReleaseEvent(button, pos)

\* A freshly built view, beside an idle controller (over a backend with
\* native looping) and an idle window.
InitOfView ==
    InitView /\ InitController /\ player.hasSetLoops /\ InitConversion /\ InitStore

SpecView == InitOfView /\ [][NextView]_vars

\* The window driven by its user, by the view's completion signals and by
\* the controller's notifications.
NextStore ==
    \/ \E path \in StorePaths : load_video(path)
    \/ \E position_ms \in StorePositions : on_position_changed(position_ms)
    \/ \E message \in ErrorStrings \ {""} : on_error(message)
    \/ \E status \in StoreStatuses : on_media_status_changed(status)
    \/ \E point \in PointShapes : on_annotation_requested(point)
    \/ \E line \in LineShapes : on_line_completed(line)
    \/ save_current_frame
    \/ \E path \in ItemPaths(tree) \cup {NoItem} : on_tree_item_clicked(path)
    \/ delete_selected_frame
    \/ \E tool \in StoreTools : tool_button_clicked(tool)

\* A freshly built window, with its idle view and controller (over a backend
\* with native looping).
InitOfStore ==
    InitStore /\ InitView /\ InitController /\ player.hasSetLoops /\ InitConversion

SpecStore == InitOfStore /\ [][NextStore]_vars

\* The window receiving the three completion signals of the view, with and
\* without a video loaded.
NextCommit ==
    \/ \E path \in StorePaths : load_video(path)
    \/ \E position_ms \in StorePositions : on_position_changed(position_ms)
    \/ \E message \in ErrorStrings \ {""} : on_error(message)
    \/ \E point \in PointShapes : on_annotation_requested(point)
    \/ \E line \in LineShapes : on_line_completed(line)
    \/ \E angle \in AngleShapes : on_angle_completed(angle)
    \/ \E tool \in StoreTools : tool_button_clicked(tool)

InitOfCommit == InitOfStore

SpecCommit == InitOfCommit /\ [][NextCommit]_vars

\* Videos opened where the frame rate is followed: one without frame-rate
\* metadata and one of 60 frames per second.
RatePaths == {"norate.avi", "fps60.mp4"}

\* The window following the frame rate: videos are opened while the backend
\* is at position 0, the backend reports positions, and reports the statuses
\* on which the controller reads the frame rate.
NextRate ==
    \/ \E path \in RatePaths : player.position = 0 /\ load_video(path)
    \/ \E position_ms \in StorePositions : on_position_changed(position_ms)
    \/ \E status \in {"BufferedMedia", "LoadedMedia"} : on_frame_rate_changed(status)
    \/ \E line \in LineShapes :
           created_so_far < MaxRenamed /\ on_line_completed(line)
    \/ save_current_frame

InitOfRate == InitOfStore

SpecRate == InitOfRate /\ [][NextRate]_vars

\* A frame no position of the model falls in.
MissingFrame == 5

\* The data of the items the rename and delete commands are addressed to:
\* frames and annotations the store may hold, and ones it never holds.
AddressedData ==
    {FrameData(0), FrameData(MissingFrame)}
        \cup {AnnotationData(frame, new_annotation("line", id, line)) :
                  frame \in {0, MissingFrame}, id \in {1, MaxRenamed + 1}, line \in LineShapes}
        \cup {AnnotationData(0, new_annotation("angle", 1, angle)) : angle \in AngleShapes}

\* The store filled by lines and saved frames, with the rename and delete
\* commands run on item data of every kind.
NextStale ==
    \/ \E path \in StorePaths : load_video(path)
    \/ \E position_ms \in StorePositions : on_position_changed(position_ms)
    \/ \E line \in LineShapes :
           created_so_far < MaxRenamed /\ on_line_completed(line)
    \/ save_current_frame
    \/ \E data \in AddressedData, ok \in BOOLEAN, text \in RenameTexts :
           rename_addressed(data, ok, text)
    \/ \E data \in AddressedData : delete_addressed(data)

InitOfStale == InitOfStore

SpecStale == InitOfStale /\ [][NextStale]_vars

\* Pointer positions of the gestures drawn in the window: inside the bounds,
\* on their bottom edge, and outside.
GesturePositions == {Pt(3, 1), Pt(3, VideoHeight), Pt(-2, 1)}

\* The window with its view: the tool buttons, the mouse gestures on the
\* view, whose completion signals reach the window, and the loading of videos.
NextGesture ==
    \/ \E path \in StorePaths : load_video(path)
    \/ \E tool \in Tools : tool_button_clicked(tool)
    \/ \E pos \in GesturePositions : mousePressEvent_in_window("LeftButton", pos)
    \/ \E pos \in GesturePositions : mouseMoveEvent_in_window(pos)
    \/ \E pos \in GesturePositions : mouseReleaseEvent_in_window("LeftButton", pos)

InitOfGesture == InitOfStore

SpecGesture == InitOfGesture /\ [][NextGesture]_vars

\* Values the user drags the slider handle to, in milliseconds.
SliderValues == {0, 10, 33, MaxDuration}

\* The window with its position slider, driven by the user and by the
\* backend's position and duration reports.
NextSlider ==
    \/ \E path \in StorePaths : load_video(path)
    \/ \E position_ms \in StorePositions : on_position_changed(position_ms)
    \/ \E duration_ms \in Durations : on_duration_changed(duration_ms)
    \/ on_slider_pressed
    \/ \E value \in SliderValues : on_slider_moved(value)
    \/ on_slider_released
    \/ save_current_frame

InitOfSlider == InitOfStore

SpecSlider == InitOfSlider /\ [][NextSlider]_vars

\* The window with the rename dialog and the Line and Angle tools, over one
\* video opened once, while at most MaxRenamed annotations have been created.
NextTree ==
    \/ \E path \in StorePaths : current_path = "None" /\ load_video(path)
    \/ \E position_ms \in StorePositions : on_position_changed(position_ms)
    \/ \E line \in LineShapes :
           created_so_far < MaxRenamed /\ on_line_completed(line)
    \/ \E angle \in AngleShapes :
           created_so_far < MaxRenamed /\ on_angle_completed(angle)
    \/ save_current_frame
    \/ \E path \in ItemPaths(tree) \cup {NoItem} : on_tree_item_clicked(path)
    \/ \E ok \in BOOLEAN, text \in RenameTexts : rename_selected_frame(ok, text)
    \/ delete_selected_frame

InitOfTree == InitOfStore

SpecTree == InitOfTree /\ [][NextTree]_vars

\* Angles the view can complete inside the bounds: a right angle, an obtuse
\* one, three points in a row with p2 between p1 and p3, p3 back on p1, and
\* p2 on p1 or on p3.
MeasuredAngles ==
    {<<Pt(0, 1), Pt(3, 1), Pt(3, 4)>>,
     <<Pt(0, 1), Pt(3, 1), Pt(8, 4)>>,
     <<Pt(0, 1), Pt(3, 1), Pt(8, 1)>>,
     <<Pt(0, 1), Pt(3, 1), Pt(0, 1)>>,
     <<Pt(3, 1), Pt(3, 1), Pt(3, 4)>>,
     <<Pt(0, 1), Pt(3, 1), Pt(3, 1)>>}

\* The window storing the angles completed on the frames of one video.
NextAngle ==
    \/ \E path \in StorePaths : current_path = "None" /\ load_video(path)
    \/ \E position_ms \in StorePositions : on_position_changed(position_ms)
    \/ \E angle \in MeasuredAngles :
           created_so_far < MaxRenamed /\ on_angle_completed(angle)
    \/ \E path \in ItemPaths(tree) \cup {NoItem} : on_tree_item_clicked(path)
    \/ delete_selected_frame

InitOfAngle == InitOfStore

SpecAngle == InitOfAngle /\ [][NextAngle]_vars

\* The window with all the buttons of its tool group, while videos are
\* opened, durations are reported and media errors arrive.
NextTools ==
    \/ \E path \in StorePaths : load_video(path)
    \/ \E duration_ms \in Durations : on_duration_changed(duration_ms)
    \/ \E message \in ErrorStrings \ {""} : on_error(message)
    \/ \E tool \in ToolButtons : tool_button_clicked(tool)

InitOfTools == InitOfStore

SpecTools == InitOfTools /\ [][NextTools]_vars

\* Duration of the video stepped through, in milliseconds.
StepDuration == 250

\* The controller stepping forward frame by frame through one video: the
\* video is opened once, its duration and frame rate are reported while the
\* position is 0, and the position is changed by skip_frames(1) only.
NextStepping ==
    \/ \E path \in RatePaths : current_path = "None" /\ load(path)
    \/ \E status \in {"LoadedMedia", "BufferedMedia"} :
           player.position = 0 /\ player.source # "None" /\ handle_media_status(status)
    \/ player.position = 0 /\ player.source # "None" /\ durationChanged(StepDuration)
    \/ skip_frames(1)
    \/ \E enabled \in BOOLEAN : set_looping(enabled)
    \/ play
    \/ pause

InitOfStepping == InitOfController

SpecStepping == InitOfStepping /\ [][NextStepping]_vars


(***************************************************************************)
(* Claims about VideoPlayerController, checked under SpecController.       *)
(***************************************************************************)
IsSkip == lastOp.op = "skip_frames" /\ calls # <<>>

\* The exact (unrounded) position a skip aims at: before + n * interval.
SkipExactTarget == RAdd(FromInt(lastOp.before), RMul(FromInt(lastOp.arg), frame_interval_ms))

\* C1: skip_frames(n) seeks to a position inside [0, duration]; a backward
\* skip that would go below 0 lands on exactly 0, and a forward skip that
\* would pass the end lands on exactly duration.
C1_SkipStaysInRange ==
    IsSkip =>
        /\ Len(calls) = 1
        /\ calls[1].fn = "setPosition"
        /\ calls[1].arg \in 0..player.duration
        /\ player.position = calls[1].arg
        /\ RLt(SkipExactTarget, FromInt(0)) => calls[1].arg = 0
        /\ RLt(FromInt(player.duration), SkipExactTarget) => calls[1].arg = player.duration

\* C1 witness: at the default rate a skip of 2 frames (about 66 ms) from
\* 20 ms before the end lands exactly on the duration.
C1_Witness ==
    /\ IsSkip
    /\ lastOp.arg = 2
    /\ lastOp.before = MaxDuration - 20
    /\ frame_interval_ms = <<100, 3>>
    /\ player.duration = MaxDuration
    /\ player.position = MaxDuration

\* d is x truncated toward zero: |d| <= |x| < |d| + 1 and d has x's sign.
IsTruncation(d, x) ==
    /\ Abs(d) * x[2] <= Abs(x[1])
    /\ Abs(x[1]) < (Abs(d) + 1) * x[2]
    /\ d * x[1] >= 0

\* d is the integer nearest to x (|x - d| <= 1/2).
IsNearest(d, x) == 2 * Abs(x[1] - d * x[2]) <= x[2]

Clamped(v, duration) == IF v < 0 THEN 0 ELSE IF v > duration THEN duration ELSE v

\* The integers around x = n * interval among which the delta is looked for.
SkipDeltas ==
    LET x == RMul(FromInt(lastOp.arg), frame_interval_ms)
        m == (Abs(x[1]) \div x[2]) + 2
    IN  (-m)..m

\* C2 (as claimed): skip_frames(n) moves the position by the integer nearest
\* to n * 1000 / rate, before clamping to [0, duration].
C2_SkipRoundsToNearest ==
    IsSkip =>
        \E d \in SkipDeltas :
            /\ IsNearest(d, RMul(FromInt(lastOp.arg), frame_interval_ms))
            /\ player.position = Clamped(lastOp.before + d, player.duration)

\* C2 (amended): skip_frames(n) moves the position by n * 1000 / rate
\* truncated toward zero (int()), before clamping to [0, duration].
C2_SkipTruncates ==
    IsSkip =>
        \E d \in SkipDeltas :
            /\ IsTruncation(d, RMul(FromInt(lastOp.arg), frame_interval_ms))
            /\ player.position = Clamped(lastOp.before + d, player.duration)

\* C2 witness: at 60 fps one frame forward from 0 lands on 16 (16.67
\* truncated), one frame backward from 20 lands on 4.
C2_Witness ==
    /\ IsSkip
    /\ frame_interval_ms = <<50, 3>>
    /\ lastOp.arg = -1
    /\ lastOp.before = MaxDuration - 20
    /\ player.position = MaxDuration - 20 - 16

IsRateDiscovery ==
    /\ lastOp.op = "mediaStatusChanged"
    /\ lastOp.arg \in {"BufferedMedia", "LoadedMedia"}

\* The interval changes only in a step that handles Buffered or Loaded.
IntervalChangesOnlyOnDiscovery ==
    frame_interval_ms' # frame_interval_ms => IsRateDiscovery'

RateChangedSignals == {i \in 1..Len(signals) : signals[i].sig = "frame_rate_changed"}

\* What holds right after each handler, for the rate discovery.
C3_AfterDiscovery ==
    /\ (lastOp.op = "init" => frame_interval_ms = <<100, 3>>)
    /\ (IsRateDiscovery /\ player.frame_rate.present /\ player.frame_rate.rate[1] > 0) =>
           /\ frame_interval_ms = Rat(1000 * player.frame_rate.rate[2], player.frame_rate.rate[1])
           /\ Cardinality(RateChangedSignals) = 1
           /\ \A i \in RateChangedSignals : signals[i].arg = player.frame_rate.rate
    /\ (IsSkip /\ lastOp.arg = 1 /\ lastOp.before = 0 /\ player.duration >= 33) =>
           /\ frame_interval_ms = <<50, 3>> => player.position = 16
           /\ frame_interval_ms = <<100, 3>> => player.position = 33

\* C3: the interval is 1000/30 ms until a rate is discovered (it changes only
\* when the backend reports Buffered or Loaded); right after such a status
\* with a positive metadata rate r the interval is 1000/r and exactly one
\* frame-rate-changed event carrying r was raised; one frame forward from 0
\* lands on 16 at rate 60 and on 33 at the default rate.
C3_RateDiscovery ==
    []C3_AfterDiscovery /\ [][IntervalChangesOnlyOnDiscovery]_vars

\* C3 witness: after 60 fps was discovered, one frame forward from 0 is at 16.
C3_Witness ==
    /\ IsSkip
    /\ lastOp.arg = 1
    /\ lastOp.before = 0
    /\ current_path = "fps60.mp4"
    /\ player.frame_rate = HasRate(<<60, 1>>)
    /\ frame_interval_ms = <<50, 3>>
    /\ player.position = 16

MetadataRateUnusable == ~player.frame_rate.present \/ player.frame_rate.rate[1] = 0

\* C4 (as claimed): on Buffered or Loaded with no frame rate or a zero frame
\* rate in the metadata, the controller keeps the interval it had before.
C4_KeepsPreviousInterval ==
    (IsRateDiscovery /\ MetadataRateUnusable) => frame_interval_ms = lastOp.before

\* C4 (amended): on Buffered or Loaded with no frame rate or a zero frame rate
\* in the metadata, the controller falls back to the default: the interval
\* becomes 1000/30 whatever it was before, and one frame-rate-changed event
\* carrying 30 is raised.
C4_FallsBackToDefault ==
    (IsRateDiscovery /\ MetadataRateUnusable) =>
        /\ frame_interval_ms = <<100, 3>>
        /\ Cardinality(RateChangedSignals) = 1
        /\ \A i \in RateChangedSignals : signals[i].arg = <<30, 1>>

\* C4 witness: 60 fps had been discovered (interval 1000/60), then a status
\* event arrives for a medium without a frame rate: the interval is 1000/30.
C4_Witness ==
    /\ IsRateDiscovery
    /\ current_path = "norate.avi"
    /\ ~player.frame_rate.present
    /\ lastOp.before = <<50, 3>>
    /\ frame_interval_ms = <<100, 3>>

\* C26: on a backend with native looping, after any sequence of set_looping
\* and load the loop count of the backend is infinite exactly when the loop
\* preference is enabled and is one play-through otherwise; load asks the
\* backend for the loop count of the current preference again.
C26_LoopCountFollowsPreference ==
    player.hasSetLoops =>
        /\ player.loops = (IF loop_enabled THEN Infinite ELSE 1)
        /\ lastOp.op = "load" =>
               calls = <<Call("setSource", current_path),
                         Call("setLoops", IF loop_enabled THEN Infinite ELSE 1)>>

\* C26 witness: a load with the preference enabled left the loop count infinite.
C26_Witness ==
    /\ player.hasSetLoops
    /\ lastOp.op = "load"
    /\ loop_enabled
    /\ player.loops = Infinite
    /\ calls[2] = Call("setLoops", Infinite)

\* C27: skip_frames(n) with n = 0, or with a duration of 0 or less, makes no
\* call to the backend and leaves the position where it was.
C27_SkipNoOp ==
    (lastOp.op = "skip_frames" /\ (lastOp.arg = 0 \/ player.duration <= 0)) =>
        /\ calls = <<>>
        /\ player.position = lastOp.before

\* C27 witness: a skip of one frame with duration 0 left position 10 alone.
C27_Witness ==
    /\ lastOp.op = "skip_frames"
    /\ lastOp.arg = 1
    /\ player.duration = 0
    /\ player.position = 10
    /\ calls = <<>>

\* A skip of no frame over a medium with a duration did nothing.
C27_ZeroWitness ==
    /\ lastOp.op = "skip_frames"
    /\ lastOp.arg = 0
    /\ player.duration = MaxDuration
    /\ player.position = 10
    /\ calls = <<>>

\* C28: every frame_rate_changed the controller raises carries a rate above
\* 0, whether the metadata holds no rate, 0, a negative or a positive rate.
C28_RateChangedIsPositive ==
    \A i \in RateChangedSignals : RLt(FromInt(0), signals[i].arg)

\* C28 witness: the metadata holds a negative rate and the event carries 30.
C28_Witness ==
    /\ IsRateDiscovery
    /\ player.frame_rate = HasRate(<<-1, 1>>)
    /\ Cardinality(RateChangedSignals) = 1
    /\ \A i \in RateChangedSignals : signals[i].arg = <<30, 1>>

ErrorSignals == {i \in 1..Len(signals) : signals[i].sig = "error_occurred"}

\* C5: an error callback of kind 'no error' raises no error event whatever
\* its message; any other kind raises exactly one error event, carrying the
\* supplied message, or a non-empty generic message when none was supplied.
C5_ErrorGating ==
    lastOp.op = "errorOccurred" =>
        IF lastOp.arg[1] = "NoError"
        THEN ErrorSignals = {}
        ELSE /\ Cardinality(ErrorSignals) = 1
             /\ \A i \in ErrorSignals :
                    /\ lastOp.arg[2] # "" => signals[i].arg = lastOp.arg[2]
                    /\ lastOp.arg[2] = "" => signals[i].arg # ""

\* C5 witness: a resource error with message "boom" raised one event "boom".
C5_Witness ==
    /\ lastOp.op = "errorOccurred"
    /\ lastOp.arg = <<"ResourceError", "boom">>
    /\ signals = <<Signal("error_occurred", "boom")>>

IsEndOfMedia == lastOp.op = "mediaStatusChanged" /\ lastOp.arg = "EndOfMedia"

\* C6: on end-of-media with looping disabled the controller seeks to duration
\* (when duration > 0) and then pauses; with looping enabled it issues neither
\* a seek nor a pause; the policy never acts while the backend's native loop
\* count is infinite.
C6_EndOfMediaPolicy ==
    IsEndOfMedia =>
        IF loop_enabled
        THEN calls = <<>>
        ELSE /\ calls = IF player.duration > 0
                        THEN <<Call("setPosition", player.duration), Call("pause", 0)>>
                        ELSE <<Call("pause", 0)>>
             /\ player.duration > 0 => player.position = player.duration
             /\ player.loops # Infinite

\* C6 witness: end-of-media with looping disabled and a loaded medium: the
\* backend was sought to the duration and then paused.
C6_Witness ==
    /\ IsEndOfMedia
    /\ ~loop_enabled
    /\ player.duration = MaxDuration
    /\ player.position = MaxDuration
    /\ calls = <<Call("setPosition", MaxDuration), Call("pause", 0)>>

(***************************************************************************)
(* Claims about the conversion, checked under SpecConverter.               *)
(***************************************************************************)
\* C7 (as claimed): for every frame index f >= 0 and every frame rate r > 0,
\* converting f to milliseconds and the result back to a frame returns f.
C7_RoundTrip ==
    conv.pc = "done" => current_frame = conv.frame

\* C7 (amended): for every frame index f >= 0 and every frame rate r with
\* 0 < r <= 1000 (a frame interval of at least 1 ms), converting f to
\* milliseconds and the result back to a frame returns f.
C7_RoundTripUpTo1000 ==
    (conv.pc = "done" /\ RLe(frame_rate, FromInt(1000))) => current_frame = conv.frame

\* C7 witness: frame 7 at 29.97 fps went to 234 ms and came back as frame 7.
C7_Witness ==
    /\ conv.pc = "done"
    /\ frame_rate = <<2997, 100>>
    /\ conv.frame = 7
    /\ conv.position_ms = 234
    /\ current_frame = 7

(***************************************************************************)
(* Claims about VideoView, checked under SpecView.                         *)
(***************************************************************************)
EmittedNamed(name) == {i \in 1..Len(emitted) : emitted[i].sig = name}

IsPress == lastEvent.ev = "mousePressEvent"

IsRelease == lastEvent.ev = "mouseReleaseEvent"

\* The last event was a click the annotation tools take: the left button
\* while hand mode is off (a click leaves hand mode as it was).
IsAnnotatingClick == IsPress /\ lastEvent.arg[1] = "LeftButton" /\ ~hand_enabled

IsSwitchToDifferentTool ==
    lastEvent.ev = "set_current_tool" /\ lastEvent.arg # lastEvent.before.tool

NoGestureInProgress ==
    /\ line_start_point = None
    /\ ~line_is_dragging
    /\ line_preview_item = None
    /\ angle_points = <<>>
    /\ angle_preview_lines = <<>>

\* A start point appears only by a Line click on an idle gesture, and is that click.
StartPointIsFreshClick ==
    (line_start_point # None /\ line_start_point # lastEvent.before.start) =>
        /\ IsAnnotatingClick
        /\ lastEvent.before.tool = "line"
        /\ lastEvent.before.start = None
        /\ line_start_point = Some(lastEvent.arg[2])

\* Every emitted line starts at the start point the emitting event met.
EmittedLinesUseCurrentStart ==
    \A i \in EmittedNamed("line_completed") :
        /\ lastEvent.before.start # None
        /\ emitted[i].arg[1] = lastEvent.before.start[1]

\* Every emitted angle starts with the points the emitting event met.
EmittedAnglesUseCurrentPoints ==
    \A i \in EmittedNamed("angle_completed") :
        /\ Len(lastEvent.before.points) = 2
        /\ emitted[i].arg[1] = lastEvent.before.points[1]
        /\ emitted[i].arg[2] = lastEvent.before.points[2]

\* Angle points are only ever added to the points the event met, by a click.
AnglePointsGrowByClicks ==
    (angle_points # <<>> /\ angle_points # lastEvent.before.points) =>
        /\ IsAnnotatingClick
        /\ lastEvent.before.tool = "angle"
        /\ Len(angle_points) = Len(lastEvent.before.points) + 1
        /\ \A i \in 1..Len(lastEvent.before.points) :
               angle_points[i] = lastEvent.before.points[i]

\* C8: switching from one tool to a different tool cancels any in-progress
\* Line or Angle gesture and removes its preview: afterwards there is no
\* start point, no drag, no collected angle point and no preview; a start
\* point or angle point present later was recorded by a later click, and
\* every emitted line or angle uses only the points recorded since then
\* (the ones the emitting click met), never the ones cancelled.
C8_ToolSwitchCancels ==
    /\ IsSwitchToDifferentTool => NoGestureInProgress
    /\ StartPointIsFreshClick
    /\ EmittedLinesUseCurrentStart
    /\ AnglePointsGrowByClicks
    /\ EmittedAnglesUseCurrentPoints

\* C8 witness: a Line gesture with a recorded start point met a switch to
\* the Point tool, and nothing of it is left.
C8_Witness ==
    /\ lastEvent.ev = "set_current_tool"
    /\ lastEvent.arg = "point"
    /\ lastEvent.before.tool = "line"
    /\ lastEvent.before.start # None
    /\ NoGestureInProgress

\* The third point of a completed angle: the click clamped to the bounds
\* (with the modifier held, projected and clamped again).
ThirdPoint(p1, p2, pos) ==
    LET c == clamp_to_video_bounds(pos[1], pos[2])
        q == IF shift_pressed THEN project_to_perpendicular(p1, p2, c[1], c[2]) ELSE c
    IN  clamp_to_video_bounds(q[1], q[2])

IsAngleClick == IsAnnotatingClick /\ lastEvent.before.tool = "angle"

\* C9: with the Angle tool, the first two accepted clicks are collected in
\* click order and emit no angle; the third emits exactly one
\* angle_completed carrying (p1, p2, p3) in click order and leaves zero
\* collected points; an angle is emitted on no other occasion, and the
\* number of collected points never exceeds 2.
C9_AngleThreeClicks ==
    /\ Len(angle_points) <= 2
    /\ Cardinality(EmittedNamed("angle_completed")) <= 1
    /\ EmittedNamed("angle_completed") # {} =>
           IsAngleClick /\ Len(lastEvent.before.points) = 2
    /\ (IsAngleClick /\ Len(lastEvent.before.points) < 2) =>
           /\ angle_points = Append(lastEvent.before.points,
                                    clamp_to_video_bounds(lastEvent.arg[2][1],
                                                          lastEvent.arg[2][2]))
           /\ EmittedNamed("angle_completed") = {}
    /\ (IsAngleClick /\ Len(lastEvent.before.points) = 2) =>
           /\ Cardinality(EmittedNamed("angle_completed")) = 1
           /\ \A i \in EmittedNamed("angle_completed") :
                  emitted[i].arg =
                      <<lastEvent.before.points[1], lastEvent.before.points[2],
                        ThirdPoint(lastEvent.before.points[1], lastEvent.before.points[2],
                                   lastEvent.arg[2])>>
           /\ angle_points = <<>>

\* C9 witness: a third click completed an angle over three distinct points.
C9_Witness ==
    /\ IsAngleClick
    /\ Len(lastEvent.before.points) = 2
    /\ angle_points = <<>>
    /\ \E i \in EmittedNamed("angle_completed") :
           /\ emitted[i].arg[1] # emitted[i].arg[2]
           /\ emitted[i].arg[2] # emitted[i].arg[3]
           /\ emitted[i].arg[1] # emitted[i].arg[3]

IsLineClick == IsAnnotatingClick /\ lastEvent.before.tool = "line"

\* C10: Line click-click mode: with a start point recorded (and the pointer
\* released within the threshold, or not released at all), a second click
\* anywhere emits exactly one line_completed from the recorded start to the
\* click position clamped to the bounds and resets the gesture to Idle; a
\* release that meets no start point, as the one following the second click
\* does, emits nothing and leaves the gesture Idle.
C10_LineClickClick ==
    /\ (IsLineClick /\ lastEvent.before.start # None) =>
           /\ emitted = <<Signal("line_completed",
                                 <<lastEvent.before.start[1],
                                   clamp_to_video_bounds(lastEvent.arg[2][1],
                                                         lastEvent.arg[2][2])>>)>>
           /\ line_start_point = None
           /\ ~line_is_dragging
           /\ line_preview_item = None
    /\ (IsRelease /\ lastEvent.before.start = None) =>
           /\ emitted = <<>>
           /\ line_start_point = None
           /\ ~line_is_dragging

\* C10 witness: after a first click and a release within the threshold, a
\* second click beyond the bounds completed the line at the clamped position.
C10_Witness ==
    /\ IsLineClick
    /\ lastEvent.before.start # None
    /\ ~lastEvent.before.dragging
    /\ ~is_inside_video(lastEvent.arg[2][1], lastEvent.arg[2][2])
    /\ Cardinality(EmittedNamed("line_completed")) = 1
    /\ line_start_point = None

\* C10, the release: a release with the Line tool that met no start point.
C10_ReleaseWitness ==
    /\ IsRelease
    /\ lastEvent.before.start = None
    /\ lastEvent.before.tool = "line"
    /\ emitted = <<>>


\* The Manhattan distance between two points.
ManhattanDistance(p, q) == RAdd(RAbs(RSub(q[1], p[1])), RAbs(RSub(q[2], p[2])))

\* The last event was a release of the left button (hand mode off) that met
\* a Line gesture whose first click had not been released yet.
IsDragRelease ==
    /\ IsRelease
    /\ lastEvent.arg[1] = "LeftButton"
    /\ ~hand_enabled
    /\ lastEvent.before.tool = "line"
    /\ lastEvent.before.start # None
    /\ lastEvent.before.dragging

ReleasePoint == clamp_to_video_bounds(lastEvent.arg[2][1], lastEvent.arg[2][2])

ReleaseDistance == ManhattanDistance(lastEvent.before.start[1], ReleasePoint)

\* C11: Line click-drag mode: a release after the first Line click at a
\* clamped position whose Manhattan distance from the start is greater than
\* 5 emits exactly one line_completed (start to the clamped release point)
\* and resets the gesture; at a distance of 5 or less it emits nothing,
\* keeps the start point and ends the drag, waiting for a second click.
C11_LineClickDrag ==
    IsDragRelease =>
        IF RLt(FromInt(5), ReleaseDistance)
        THEN /\ emitted = <<Signal("line_completed",
                                   <<lastEvent.before.start[1], ReleasePoint>>)>>
             /\ line_start_point = None
             /\ ~line_is_dragging
             /\ line_preview_item = None
        ELSE /\ emitted = <<>>
             /\ line_start_point = lastEvent.before.start
             /\ ~line_is_dragging

\* C11 witness: a release exactly 5 away from the start kept the start point.
C11_Witness ==
    /\ IsDragRelease
    /\ ReleaseDistance = FromInt(5)
    /\ emitted = <<>>
    /\ line_start_point = lastEvent.before.start
    /\ ~line_is_dragging

\* C11, the drag: a release more than 5 away completed the line.
C11_DragWitness ==
    /\ IsDragRelease
    /\ RLt(FromInt(5), ReleaseDistance)
    /\ Len(emitted) = 1
    /\ line_start_point = None


ClickPosition == lastEvent.arg[2]

\* The click lies within the content bounds, edges included.
ClickInside ==
    /\ RLe(boundingRect.left, ClickPosition[1])
    /\ RLe(ClickPosition[1], boundingRect.right)
    /\ RLe(boundingRect.top, ClickPosition[2])
    /\ RLe(ClickPosition[2], boundingRect.bottom)

IsPointClick == IsAnnotatingClick /\ lastEvent.before.tool = "point"

\* The Line start, the drag flag and the Angle points are as the event met them.
GestureAsBefore ==
    /\ line_start_point = lastEvent.before.start
    /\ line_is_dragging = lastEvent.before.dragging
    /\ angle_points = lastEvent.before.points

\* C12: with the Point tool, a click inside the content bounds (edges
\* included) emits exactly one annotation_requested at the click's
\* content-space coordinates, and a click outside emits nothing; neither
\* changes the gesture state.
C12_PointClick ==
    IsPointClick =>
        /\ emitted = IF ClickInside
                     THEN <<Signal("annotation_requested", ClickPosition)>>
                     ELSE <<>>
        /\ GestureAsBefore

\* C12 witness: a Point click on the bottom edge of the bounds emitted a point.
C12_Witness ==
    /\ IsPointClick
    /\ ClickPosition[2] = boundingRect.bottom
    /\ emitted = <<Signal("annotation_requested", ClickPosition)>>

\* C12, outside: a Point click outside the bounds emitted nothing.
C12_OutsideWitness ==
    /\ IsPointClick
    /\ ~ClickInside
    /\ emitted = <<>>

IsIdleBefore == lastEvent.before.start = None /\ lastEvent.before.points = <<>>

\* C13 (as claimed): with the Line or the Angle tool and no gesture in
\* progress, a first click outside the content bounds is rejected, not
\* clamped: no point is recorded, nothing is emitted, the gesture stays Idle.
C13_FirstClickOutsideRejected ==
    (IsAnnotatingClick /\ lastEvent.before.tool \in {"line", "angle"}
        /\ IsIdleBefore /\ ~ClickInside) =>
        /\ emitted = <<>>
        /\ line_start_point = None
        /\ angle_points = <<>>

\* C13, the Line tool alone: the first click outside the bounds is rejected.
C13_LineFirstClickOutsideRejected ==
    (IsLineClick /\ IsIdleBefore /\ ~ClickInside) =>
        /\ emitted = <<>>
        /\ line_start_point = None
        /\ angle_points = <<>>

\* C13, the Angle tool: a first click outside the bounds was recorded, clamped.
C13_AngleClampedWitness ==
    /\ IsAngleClick
    /\ IsIdleBefore
    /\ ~ClickInside
    /\ angle_points = <<clamp_to_video_bounds(ClickPosition[1], ClickPosition[2])>>

EmittedPoints ==
    UNION {IF emitted[i].sig = "annotation_requested" THEN {emitted[i].arg}
           ELSE IF emitted[i].sig = "line_completed" THEN {emitted[i].arg[1], emitted[i].arg[2]}
           ELSE IF emitted[i].sig = "angle_completed"
                THEN {emitted[i].arg[1], emitted[i].arg[2], emitted[i].arg[3]}
           ELSE {} : i \in 1..Len(emitted)}

\* C14: every coordinate carried by an emitted annotation_requested,
\* line_completed or angle_completed lies inside the content bounds, after
\* any sequence of clicks, moves, releases, modifier keys and tool switches.
C14_EmittedInsideBounds ==
    \A p \in EmittedPoints : is_inside_video(p[1], p[2])

\* C14 witness: a click beyond the bounds completed an angle whose points are
\* all inside the bounds.
C14_Witness ==
    /\ IsAngleClick
    /\ ~ClickInside
    /\ EmittedNamed("angle_completed") # {}
    /\ Cardinality(EmittedPoints) = 3
    /\ \A p \in EmittedPoints : is_inside_video(p[1], p[2])


\* The last event was the third click of an angle, with Shift held (a click
\* leaves the modifier as it was).
IsConstrainedThirdClick ==
    IsAngleClick /\ Len(lastEvent.before.points) = 2 /\ shift_pressed

\* The third point of the angle the last event emitted.
EmittedThirdPoint == emitted[CHOOSE i \in EmittedNamed("angle_completed") : TRUE].arg[3]

\* The projection of the raw pointer position of the click onto the
\* perpendicular to p1-p2 through p2.
RawProjection ==
    project_to_perpendicular(lastEvent.before.points[1], lastEvent.before.points[2],
                             ClickPosition[1], ClickPosition[2])

\* C33: on the third Angle click with Shift held, the emitted p3 is the
\* projection of the raw, unclamped pointer position, clamped to the bounds:
\* the projection comes before any clamping, for every pointer position.
C33_ProjectionBeforeClamping ==
    IsConstrainedThirdClick =>
        /\ EmittedNamed("angle_completed") # {}
        /\ EmittedThirdPoint = clamp_to_video_bounds(RawProjection[1], RawProjection[2])

\* C33, the clicks inside the bounds: there the emitted p3 is the clamped
\* projection of the pointer position.
C33_ProjectionOfClickInside ==
    (IsConstrainedThirdClick /\ ClickInside) =>
        /\ EmittedNamed("angle_completed") # {}
        /\ EmittedThirdPoint = clamp_to_video_bounds(RawProjection[1], RawProjection[2])

\* A constrained third click outside the bounds emitted a point that is not
\* the clamped projection of the pointer position.
C33_ClampedFirstWitness ==
    /\ IsConstrainedThirdClick
    /\ ~ClickInside
    /\ EmittedNamed("angle_completed") # {}
    /\ EmittedThirdPoint # clamp_to_video_bounds(RawProjection[1], RawProjection[2])

\* (p3 - p2) . (p2 - p1)
DotAtSecondPoint(p1, p2, p3) ==
    RAdd(RMul(RSub(p3[1], p2[1]), RSub(p2[1], p1[1])),
         RMul(RSub(p3[2], p2[2]), RSub(p2[2], p1[2])))

C34_DegenerateWitness ==
    /\ IsConstrainedThirdClick
    /\ lastEvent.before.points[1] = lastEvent.before.points[2]
    /\ EmittedNamed("angle_completed") # {}
    /\ EmittedThirdPoint = ClickPosition
    /\ EmittedThirdPoint # lastEvent.before.points[2]


(***************************************************************************)
(* Claims about the annotation store and the frames tree (MainWindow).     *)
(***************************************************************************)
\* Every annotation in the store, whatever its frame.
AllStored(store) ==
    UNION {{store[f][i] : i \in 1..Len(store[f])} : f \in DOMAIN store}

\* The places of the store: a frame and an index in the list of the frame.
StorePlaces(store) ==
    UNION {{<<f, i>> : i \in 1..Len(store[f])} : f \in DOMAIN store}

\* The (type, id) pairs in the store.
StoredKeys(store) == {<<a.type, a.id>> : a \in AllStored(store)}

\* No two places of the store hold the same (type, id), and no stored id is
\* beyond the counter of its type.
IdsDistinctAndCounted ==
    /\ \A p, q \in StorePlaces(annotations) :
           p # q => \/ annotations[p[1]][p[2]].type # annotations[q[1]][q[2]].type
                    \/ annotations[p[1]][p[2]].id # annotations[q[1]][q[2]].id
    /\ \A a \in AllStored(annotations) : a.id \in 1..annotation_counter[a.type]

\* In one step the counter of a type either stays, and no (type, id) of that
\* type enters the store, or grows by one, and the one (type, id) that enters
\* the store carries the new value of the counter.
CountersStepByAdds ==
    \A t \in DOMAIN annotation_counter :
        LET entered == {k \in StoredKeys(annotations') \ StoredKeys(annotations) : k[1] = t}
        IN  \/ annotation_counter'[t] = annotation_counter[t] /\ entered = {}
            \/ /\ annotation_counter'[t] = annotation_counter[t] + 1
               /\ entered = {<<t, annotation_counter[t] + 1>>}

\* C15: ids come from one counter per type: the counter of a type counts the
\* annotations of that type ever added and the k-th of them receives id k,
\* whatever is added of other types or deleted in between, so that no id is
\* used twice.
C15_IdsPerTypeNeverReused ==
    /\ [](IdsDistinctAndCounted)
    /\ [][CountersStepByAdds]_vars

\* Two points then a line were added: points 1 and 2 and line 1 are stored.
C15_Witness ==
    /\ annotation_counter["point"] = 2
    /\ annotation_counter["line"] = 1
    /\ StoredKeys(annotations) = {<<"point", 1>>, <<"point", 2>>, <<"line", 1>>}

\* Point 1 was deleted before point 2 was added.
C15_DeleteWitness ==
    /\ annotation_counter["point"] = 2
    /\ lastAction.op = "on_annotation_requested"
    /\ StoredKeys(annotations) = {<<"point", 2>>}


\* A step of _delete_selected_frame on a frame item, on an annotation item.
IsFrameDeletion ==
    /\ lastAction'.op = "delete_selected_frame"
    /\ selected # NoItem
    /\ selected_data.type = "frame"

IsAnnotationDeletion ==
    /\ lastAction'.op = "delete_selected_frame"
    /\ selected # NoItem
    /\ selected_data.type = "annotation"

\* The entries of saved_frames for the frames other than `frame`.
OtherEntries(frames, frame) == SelectSeq(frames, LAMBDA entry : entry.frame # frame)

\* The store holds the same lists under the same frames, `frame` aside.
OtherListsUnchanged(frame) ==
    /\ DOMAIN annotations' \ {frame} = DOMAIN annotations \ {frame}
    /\ \A g \in DOMAIN annotations \ {frame} : annotations'[g] = annotations[g]

\* C16: deleting a saved frame removes, in the one step, the entry of the
\* frame and all the annotations of the frame; every other entry and the
\* annotation list of every other frame stay as they were.
C16_FrameDeletionCascades ==
    [][IsFrameDeletion =>
          /\ ~frame_is_saved(saved_frames', selected_data.frame)
          /\ selected_data.frame \notin DOMAIN annotations'
          /\ saved_frames' = OtherEntries(saved_frames, selected_data.frame)
          /\ OtherListsUnchanged(selected_data.frame)]_vars

\* C16 witness: a frame with annotations was deleted while another saved frame
\* had annotations, which are still there.
C16_Witness ==
    /\ lastAction.op = "delete_selected_frame"
    /\ lastAction.arg.data.type = "frame"
    /\ Len(lastAction.arg.list) >= 1
    /\ lastAction.arg.data.frame \notin DOMAIN annotations
    /\ Len(saved_frames) = 1
    /\ Len(annotations_get(annotations, saved_frames[1].frame)) >= 1

\* C17: deleting one annotation removes that annotation and no other from the
\* list of its frame, keeps the others in their order, and keeps the entry of
\* the frame (and every other entry and list), also when the list gets empty.
C17_AnnotationDeletionKeepsFrame ==
    [][IsAnnotationDeletion =>
          LET frame == selected_data.frame
              before == annotations_get(annotations, frame)
          IN  /\ saved_frames' = saved_frames
              /\ frame \in DOMAIN annotations'
              /\ Len(annotations'[frame]) = Len(before) - 1
              /\ annotations'[frame] =
                     SelectSeq(before, LAMBDA a : a # selected_data.annotation)
              /\ OtherListsUnchanged(frame)]_vars

\* C17 witness: the first of two annotations of a frame was deleted; the
\* second one and the entry of the frame are still there.
C17_Witness ==
    /\ lastAction.op = "delete_selected_frame"
    /\ lastAction.arg.data.type = "annotation"
    /\ Len(lastAction.arg.list) = 2
    /\ lastAction.arg.data.annotation = lastAction.arg.list[1]
    /\ annotations_get(annotations, lastAction.arg.data.frame) = <<lastAction.arg.list[2]>>
    /\ frame_is_saved(saved_frames, lastAction.arg.data.frame)

\* The only annotation of a frame was deleted: the list is empty and the entry
\* of the frame is still there.
C17_EmptyWitness ==
    /\ lastAction.op = "delete_selected_frame"
    /\ lastAction.arg.data.type = "annotation"
    /\ Len(lastAction.arg.list) = 1
    /\ lastAction.arg.data.frame \in DOMAIN annotations
    /\ annotations[lastAction.arg.data.frame] = <<>>
    /\ frame_is_saved(saved_frames, lastAction.arg.data.frame)


\* The logical node an item stands for: its frame number for a frame item,
\* its (frame, type, id) for an annotation item.
LogicalNode(t, path) ==
    IF Len(path) = 1
    THEN <<"frame", item_data(t, path).frame>>
    ELSE <<"annotation", item_data(t, path).frame,
           item_data(t, path).annotation.type, item_data(t, path).annotation.id>>

\* The handlers that change the store and rebuild the tree.
RebuildingHandlers ==
    {"on_annotation_requested", "on_line_completed", "on_angle_completed",
     "save_current_frame", "rename_selected_frame", "delete_selected_frame"}

\* A step of a rebuilding handler that leaves the logical node of the current
\* item in the tree.
RebuildKeepsSelectedNode ==
    /\ lastAction'.op \in RebuildingHandlers
    /\ selected # NoItem
    /\ \E p \in ItemPaths(tree') : LogicalNode(tree', p) = LogicalNode(tree, selected)

\* C18: a rebuild of the tree after an add, a save, a rename or a deletion
\* that leaves the selected node in the tree leaves that logical node
\* selected: the current item after the rebuild stands for the same frame
\* number, or the same (frame, type, id), wherever the item now is.
C18_SelectionSurvivesRebuild ==
    [][RebuildKeepsSelectedNode =>
          /\ selected' # NoItem
          /\ LogicalNode(tree', selected') = LogicalNode(tree, selected)]_vars

\* C18 witness: frame 0 was saved while an annotation of frame 1 was the
\* current item; the item moved from <<1, 1>> to <<2, 1>> and is still current.
C18_Witness ==
    /\ lastAction.op = "save_current_frame"
    /\ lastAction.arg = 0
    /\ Len(tree) = 2
    /\ selected = <<2, 1>>
    /\ item_data(tree, selected).frame = 1

\* A renamed annotation, second child of its frame, is still the current item.
C18_RenameWitness ==
    /\ lastAction.op = "rename_selected_frame"
    /\ Len(selected) = 2
    /\ selected[2] = 2
    /\ item_data(tree, selected).annotation.name = "knee"


\* C19: after _load_video the list of saved frames and the map from frames to
\* annotations are both empty.
C19_LoadEmptiesStore ==
    lastAction.op = "load_video" =>
        /\ saved_frames = <<>>
        /\ AllStored(annotations) = {}

\* C19, the list of saved frames alone: it is empty after _load_video.
C19_LoadEmptiesSavedFrames ==
    lastAction.op = "load_video" => saved_frames = <<>> /\ tree = <<>>

\* C19, what follows from it: the first annotation added while no frame is
\* saved is alone in the tree and on the canvas.
C19_NothingReappears ==
    [][(/\ lastAction'.op \in {"on_annotation_requested", "on_line_completed"}
        /\ saved_frames = <<>>
        /\ saved_frames' # <<>>)
       => /\ Len(tree'[1].children) = 1
          /\ Len(canvas_annotations') = 1]_vars

\* A video was opened while the store held an annotation, which it still holds.
C19_StaleWitness ==
    /\ lastAction.op = "load_video"
    /\ saved_frames = <<>>
    /\ AllStored(annotations) # {}

\* C20: after _on_error, and after _on_media_status_changed(InvalidMedia), the
\* media is marked unloaded and the list of saved frames and the map from
\* frames to annotations are both empty.
C20_FailureEmptiesStore ==
    lastAction.op \in {"on_error", "on_media_status_changed"} =>
        /\ ~media_loaded
        /\ saved_frames = <<>>
        /\ DOMAIN annotations = {}

\* C20, the media flag and the list of saved frames alone.
C20_FailureUnloadsAndEmptiesSavedFrames ==
    lastAction.op \in {"on_error", "on_media_status_changed"} =>
        /\ ~media_loaded
        /\ saved_frames = <<>>
        /\ tree = <<>>

\* An error was reported while the store held an annotation, which it still
\* holds.
C20_StaleWitness ==
    /\ lastAction.op = "on_error"
    /\ ~media_loaded
    /\ \E f \in DOMAIN annotations : annotations[f] # <<>>


\* C22: after any sequence of saves, adds, renames and deletions the list of
\* saved frames is strictly ascending by frame number, so that no frame
\* number is in it twice.
C22_SavedFramesAscending ==
    \A i, j \in 1..Len(saved_frames) :
        i < j => saved_frames[i].frame < saved_frames[j].frame

\* C22 witness: frame 0 was saved after frame 1 and stands before it.
C22_Witness ==
    /\ lastAction.op = "save_current_frame"
    /\ lastAction.arg = 0
    /\ Len(saved_frames) = 2
    /\ saved_frames[1].frame = 0
    /\ saved_frames[2].frame = 1

\* An annotation was added on frame 0, saved on demand before frame 1.
C22_AddWitness ==
    /\ lastAction.op = "on_line_completed"
    /\ current_frame = 0
    /\ Len(saved_frames) = 2
    /\ annotations_get(annotations, 1) = <<>>
    /\ Len(annotations_get(annotations, 0)) = 1

(***************************************************************************)
(* Claims about the position slider (MainWindow), checked under SpecSlider. *)
(***************************************************************************)
\* A step of _on_position_changed while the slider is being dragged.
IsReportDuringDrag == slider_is_active /\ lastOp'.op = "positionChanged"

\* C21: between slider-pressed and slider-released a position report of the
\* backend changes neither the value of the slider nor the current frame
\* number.
C21_DragIgnoresPositionReports ==
    [][IsReportDuringDrag =>
          /\ slider_value' = slider_value
          /\ current_frame' = current_frame]_vars

\* C21, the slider alone: a position report during a drag leaves its value.
C21_DragKeepsSliderValue ==
    [][IsReportDuringDrag => slider_value' = slider_value]_vars

\* The slider was dragged to 33 ms (frame 1) and is still held there, and the
\* window shows frame 0 after a report of position 0.
C21_StaleFrameWitness ==
    /\ slider_is_active
    /\ slider_value = 33
    /\ lastOp = Op("positionChanged", 0)
    /\ current_frame = 0


\* ---------------------------------------------------------------------------
\* Gestures of the view and the loading of a video
\* ---------------------------------------------------------------------------

\* C23: right after a load-video command no Line or Angle gesture is in
\* progress: there is no line start point, no collected angle point and no
\* preview graphics, whatever tool was checked and whatever partial gesture
\* was pending when the command ran.
C23_LoadCancelsGestures ==
    lastAction.op = "load_video" => NoGestureInProgress

\* A video was loaded while a line had its start point placed.
C23_Witness ==
    /\ lastAction.op = "load_video"
    /\ lastAction.arg.tool = "line"
    /\ lastAction.arg.start # None
    /\ NoGestureInProgress

\* A video was loaded while two points of an angle were collected.
C23_AngleWitness ==
    /\ lastAction.op = "load_video"
    /\ lastAction.arg.tool = "angle"
    /\ Len(lastAction.arg.points) = 2
    /\ NoGestureInProgress


\* ---------------------------------------------------------------------------
\* Completion signals without a video
\* ---------------------------------------------------------------------------

CompletionSlots == {"on_annotation_requested", "on_line_completed", "on_angle_completed"}

\* A completion signal of the view is delivered while no video is loaded.
IsCompletionWithoutMedia ==
    ~media_loaded /\ lastAction'.op \in CompletionSlots

\* C24: while no media is loaded, a completed point, line or angle delivered
\* by the view leaves the annotation map, the saved frames and the per-type
\* identifier counters as they were (the slot returns, nothing is raised).
C24_CompletionWithoutMediaIgnored ==
    [][IsCompletionWithoutMedia
           => UNCHANGED <<annotations, saved_frames, annotation_counter>>]_vars

\* A line arrived after a failure unloaded the video, with annotations
\* still in the map.
C24_Witness ==
    /\ ~media_loaded
    /\ lastAction.op = "on_line_completed"
    /\ AllStored(annotations) # {}

\* An angle arrived before any video was loaded.
C24_AngleWitness ==
    /\ ~media_loaded
    /\ lastAction.op = "on_angle_completed"
    /\ current_path = "None"

\* A point arrived with the point tool checked and no video loaded.
C24_PointWitness ==
    /\ ~media_loaded
    /\ lastAction.op = "on_annotation_requested"
    /\ checked_tool = "point"


\* ---------------------------------------------------------------------------
\* Committing a geometry
\* ---------------------------------------------------------------------------

\* The type of annotation each completion slot creates.
SlotType(op) ==
    IF op = "on_annotation_requested" THEN "point"
    ELSE IF op = "on_line_completed" THEN "line" ELSE "angle"

\* A completed geometry is committed: a line or an angle arrives while a
\* video is loaded, or a point does while the point tool is checked.
IsCommit ==
    /\ media_loaded
    /\ \/ lastAction'.op \in {"on_line_completed", "on_angle_completed"}
       \/ lastAction'.op = "on_annotation_requested" /\ checked_tool = "point"

\* The list of the current frame grew by one annotation at its end, and the
\* other lists are as they were.
AppendedToCurrentFrame ==
    LET before == IF current_frame \in DOMAIN annotations
                  THEN annotations[current_frame] ELSE <<>>
    IN  /\ DOMAIN annotations' = DOMAIN annotations \cup {current_frame}
        /\ Len(annotations'[current_frame]) = Len(before) + 1
        /\ \A i \in 1..Len(before) : annotations'[current_frame][i] = before[i]
        /\ annotations'[current_frame][Len(before) + 1].type = SlotType(lastAction'.op)
        /\ annotations'[current_frame][Len(before) + 1].shape = lastAction'.arg
        /\ \A f \in DOMAIN annotations \ {current_frame} : annotations'[f] = annotations[f]

\* C30: committing a geometry while the current frame is F appends exactly
\* one annotation at the end of the list of F, keeps the entries F already
\* had in their order of creation, and leaves the list of every other frame
\* as it was.
C30_CommitAppendsToCurrentFrame ==
    [][IsCommit => AppendedToCurrentFrame]_vars

\* An angle was committed on a frame that had an annotation already, while
\* another frame holds annotations too.
C30_Witness ==
    /\ media_loaded
    /\ lastAction.op = "on_angle_completed"
    /\ current_frame \in DOMAIN annotations
    /\ Len(annotations[current_frame]) >= 2
    /\ annotations[current_frame][Len(annotations[current_frame])].type = "angle"
    /\ \E f \in DOMAIN annotations \ {current_frame} : Len(annotations[f]) >= 1


\* ---------------------------------------------------------------------------
\* Annotated frames and the list of saved frames
\* ---------------------------------------------------------------------------

\* Every frame holding an annotation has an entry in the list of saved frames.
AnnotatedFramesAreSaved ==
    \A f \in DOMAIN annotations :
        annotations[f] # <<>> => \E i \in 1..Len(saved_frames) : saved_frames[i].frame = f

\* C29: in every reachable state, the states right after a load-video
\* command and after a media error included, every frame that holds at least
\* one annotation in the map has an entry in the list of saved frames.
C29_AnnotatedFramesAreSaved ==
    AnnotatedFramesAreSaved

\* C29, the handlers other than the load and the failure ones: none of them
\* leaves an annotated frame without its entry.
C29_KeptByTheOtherHandlers ==
    [][(AnnotatedFramesAreSaved
        /\ lastAction'.op \notin {"load_video", "on_error", "on_media_status_changed"})
       => AnnotatedFramesAreSaved']_vars

\* A video was opened over annotations: their frame has no entry any more.
C29_OrphanWitness ==
    /\ lastAction.op = "load_video"
    /\ ~AnnotatedFramesAreSaved


\* ---------------------------------------------------------------------------
\* Rename and delete commands on data the store does not hold
\* ---------------------------------------------------------------------------

\* The frame, or the annotation (frame, type, id), of the data is not in the
\* store: the frame is neither in the list of saved frames nor a key of the
\* map; no annotation of the frame has the type and the id.
NotInStore(data) ==
    IF data.type = "frame"
    THEN /\ \A i \in 1..Len(saved_frames) : saved_frames[i].frame # data.frame
         /\ data.frame \notin DOMAIN annotations
    ELSE \/ data.frame \notin DOMAIN annotations
         \/ \A i \in 1..Len(annotations[data.frame]) :
                \/ annotations[data.frame][i].id # data.annotation.id
                \/ annotations[data.frame][i].type # data.annotation.type

\* C25: a rename or a delete command addressed to a frame, or to an
\* annotation (frame, type, id), that is not in the store leaves the map of
\* annotations and the list of saved frames as they were (the handler
\* completes: its lookups return None or test membership first).
C25_MissingTargetIgnored ==
    [][(/\ lastAction'.op \in {"rename_item", "delete_item"}
        /\ NotInStore(lastAction'.arg.data))
       => UNCHANGED <<annotations, saved_frames>>]_vars

\* A rename, confirmed in the dialog, was addressed to a frame that is not
\* in the store, which holds other frames and annotations.
C25_Witness ==
    /\ lastAction.op = "rename_item"
    /\ lastAction.arg.ok
    /\ lastAction.arg.data = FrameData(MissingFrame)
    /\ saved_frames # <<>>
    /\ AllStored(annotations) # {}

\* A delete was addressed to an annotation whose id the frame does not hold,
\* while the frame holds another annotation.
C25_DeleteWitness ==
    /\ lastAction.op = "delete_item"
    /\ lastAction.arg.data.type = "annotation"
    /\ lastAction.arg.data.frame = 0
    /\ lastAction.arg.data.annotation.id = MaxRenamed + 1
    /\ 0 \in DOMAIN annotations
    /\ annotations[0] # <<>>

\* A rename was addressed to an angle while the frame holds a line of the
\* same id.
C25_TypeWitness ==
    /\ lastAction.op = "rename_item"
    /\ lastAction.arg.ok
    /\ lastAction.arg.data.type = "annotation"
    /\ lastAction.arg.data.annotation.type = "angle"
    /\ 0 \in DOMAIN annotations
    /\ \E i \in 1..Len(annotations[0]) :
           annotations[0][i].id = 1 /\ annotations[0][i].type = "line"


\* ---------------------------------------------------------------------------
\* The current frame and the frame rate
\* ---------------------------------------------------------------------------

\* C31: in every state the current frame number equals frame_of(p, r) for
\* the position p last reported by the backend (0 after a load) and the
\* frame rate r the window knows, the state right after a frame-rate-changed
\* event included.
C31_CurrentFrameFollowsRate ==
    current_frame = Round(RDiv(FromInt(player.position),
                               RDiv(FromInt(1000), frame_rate)))

\* C31, the handlers that are given a position: right after a load or a
\* position report the current frame is the frame of that position.
C31_CurrentFrameAfterPosition ==
    (lastOp.op = "positionChanged" \/ lastAction.op = "load_video")
        => current_frame = Round(RDiv(FromInt(player.position),
                                      RDiv(FromInt(1000), frame_rate)))

\* The frame rate changed from 30 to 60 at position 33: the current frame is
\* still 1, where frame 2 is shown.
C31_StaleWitness ==
    /\ lastAction.op = "on_frame_rate_changed"
    /\ frame_rate = <<60, 1>>
    /\ player.position = 33
    /\ current_frame = 1

\* A line was attached to the frame number of the old rate.
C31_AttachedWitness ==
    /\ lastAction.op = "on_line_completed"
    /\ frame_rate = <<60, 1>>
    /\ player.position = 33
    /\ 1 \in DOMAIN annotations


(***************************************************************************)
(* Claims about the annotations drawn on the canvas.                       *)
(***************************************************************************)
\* The step changes the current frame number or the list of the current frame.
ChangesFrameOrList ==
    \/ current_frame' # current_frame
    \/ annotations_get(annotations', current_frame')
           # annotations_get(annotations, current_frame)

CanvasShowsCurrentFrame ==
    canvas_annotations = drawn(annotations_get(annotations, current_frame))

\* C32 (as claimed): after every handled event that changes the current frame
\* number or the current frame's annotation list, the list last pushed to the
\* canvas through set_annotations equals the store's list for the current
\* frame.
C32_CanvasFollowsCurrentFrame ==
    [][ChangesFrameOrList => CanvasShowsCurrentFrame']_vars

\* C32 (what the code keeps): the canvas shows the current frame's list after
\* a position notification and after every change of the store.
C32_CanvasAfterRedraw ==
    [][(lastOp'.op = "positionChanged" \/ annotations' # annotations)
           => CanvasShowsCurrentFrame']_vars

\* A click on a tree node moved the current frame to a frame without
\* annotations while the canvas kept the line of the frame shown before.
C32_StaleCanvasWitness ==
    /\ lastOp.op = "set_position"
    /\ annotations_get(annotations, current_frame) = <<>>
    /\ Len(canvas_annotations) = 1
    /\ canvas_annotations[1].type = "line"


(***************************************************************************)
(* Claims about the previews and the gestures of the view.                 *)
(***************************************************************************)
\* The view handled a pointer move with the Line tool and a start point.
IsLineMove ==
    /\ lastEvent.ev = "mouseMoveEvent"
    /\ lastEvent.before.tool = "line"
    /\ lastEvent.before.start # None

PreviewToPointer ==
    Some(<<lastEvent.before.start[1],
           clamp_to_video_bounds(lastEvent.arg[1], lastEvent.arg[2])>>)

\* C35 (as claimed): with the Line tool and a start point recorded, after
\* every pointer move a preview segment from the start to the clamped pointer
\* position exists if and only if the guide preference is enabled or a drag
\* is active, also when the guide preference is toggled during the gesture.
C35_PreviewIffGuideOrDrag ==
    IsLineMove =>
        IF line_guide_enabled \/ line_is_dragging
        THEN line_preview_item = PreviewToPointer
        ELSE line_preview_item = None

\* C35 (what the code keeps): with the guide enabled or a drag active the
\* preview runs from the start to the clamped pointer position after the move.
C35_PreviewWhenGuideOrDrag ==
    (IsLineMove /\ (line_guide_enabled \/ line_is_dragging))
        => line_preview_item = PreviewToPointer

\* The guide was switched off after the press-and-release that placed the
\* start point: the move left the earlier preview on the scene.
C35_StalePreviewWitness ==
    /\ IsLineMove
    /\ ~line_guide_enabled
    /\ ~line_is_dragging
    /\ line_preview_item # None
    /\ line_preview_item # PreviewToPointer


StoredAngles == {a \in AllStored(annotations) : a.type = "angle"}

\* 0 <= angle <= 180: the cosine is in [-1, 1].
InClosedRange(angle) ==
    /\ ~angle.negative
    /\ angle.cos_sign \in {-1, 0, 1}
    /\ RLe(FromInt(0), angle.cos_squared)
    /\ RLe(angle.cos_squared, FromInt(1))

\* 180 degrees: the cosine is -1.
IsStraight(angle) ==
    /\ angle.cos_sign = -1
    /\ angle.cos_squared = FromInt(1)

ZeroWhenCoincident(a) ==
    (a.shape[2] = a.shape[1] \/ a.shape[2] = a.shape[3]) => a.angle = ZeroAngle

\* C36 (as claimed): every Angle annotation in the store has a stored angle
\* value in the half-open range [0, 180) degrees, for all committed points
\* inside the content bounds; when p2 coincides with p1 or with p3 the stored
\* value is 0.
C36_StoredAngleBelow180 ==
    \A a \in StoredAngles :
        /\ InClosedRange(a.angle)
        /\ ~IsStraight(a.angle)
        /\ ZeroWhenCoincident(a)

\* C36 (what the code keeps): the stored value is in the closed range
\* [0, 180], and 0 when p2 coincides with p1 or with p3.
C36_StoredAngleUpTo180 ==
    \A a \in StoredAngles :
        /\ InClosedRange(a.angle)
        /\ ZeroWhenCoincident(a)

\* Three points in a row inside the bounds, p2 between p1 and p3, are stored
\* with an angle of 180 degrees.
C36_StraightWitness ==
    \E a \in StoredAngles :
        /\ a.shape = <<Pt(0, 1), Pt(3, 1), Pt(8, 1)>>
        /\ \A i \in 1..3 : is_inside_video(a.shape[i][1], a.shape[i][2])
        /\ IsStraight(a.angle)

\* An angle whose p2 is on p1 is stored with the value 0, beside a right angle.
C36_CoincidentWitness ==
    /\ \E a \in StoredAngles : a.shape[1] = a.shape[2] /\ a.angle = ZeroAngle
    /\ \E a \in StoredAngles : a.angle = AngleOfCosine(0, FromInt(0))


LineStatePresent ==
    line_start_point # None \/ line_is_dragging \/ line_preview_item # None

AngleStatePresent ==
    angle_points # <<>> \/ angle_preview_lines # <<>>

\* C37: in every reachable state a Line start point (and the dragging flag
\* and the line preview) is present only while the current tool is Line, and
\* Angle points (and angle preview lines) are present only while the current
\* tool is Angle; hence at most one gesture is in progress at any time.
C37_GestureStateBelongsToTool ==
    /\ LineStatePresent => current_tool = "line"
    /\ AngleStatePresent => current_tool = "angle"
    /\ ~(LineStatePresent /\ AngleStatePresent)

\* The first angle point has been placed with the Angle tool, and no line
\* state is present.
C37_Witness ==
    /\ current_tool = "angle"
    /\ Len(angle_points) = 1
    /\ ~LineStatePresent
    /\ lastEvent.ev = "mousePressEvent"
    /\ lastEvent.before.tool = "angle"

\* The tool was switched away from Line while a start point was recorded.
C37_SwitchWitness ==
    /\ lastEvent.ev = "set_current_tool"
    /\ lastEvent.before.tool = "line"
    /\ lastEvent.before.start # None
    /\ current_tool = "angle"
    /\ ~LineStatePresent


(***************************************************************************)
(* Claims about the identity of the stored annotations.                    *)
(***************************************************************************)
StoredAt(place) == annotations[place[1]][place[2]]

\* C38: after any sequence of annotation adds, annotation deletes and frame
\* deletes, no two annotations in the store, on the same frame or on
\* different frames, share the same (type, id) pair: a (frame, type, id)
\* triple identifies at most one annotation.
C38_TypeAndIdIdentifyOne ==
    \A p, q \in StorePlaces(annotations) :
        (StoredAt(p).type = StoredAt(q).type /\ StoredAt(p).id = StoredAt(q).id) => p = q

\* Three points were added and one of them deleted: the two that remain are
\* on different frames and carry different ids.
C38_Witness ==
    /\ annotation_counter["point"] = 3
    /\ \E p, q \in StorePlaces(annotations) :
           /\ p[1] # q[1]
           /\ StoredAt(p).type = "point"
           /\ StoredAt(q).type = "point"
           /\ StoredAt(p).id # StoredAt(q).id
    /\ Cardinality(StorePlaces(annotations)) = 2

\* A point and a line with the same id are stored on one frame.
C38_TypesWitness ==
    \E p, q \in StorePlaces(annotations) :
        /\ p[1] = q[1]
        /\ StoredAt(p).type = "point"
        /\ StoredAt(q).type = "line"
        /\ StoredAt(p).id = StoredAt(q).id


(***************************************************************************)
(* Claims about stepping frame by frame, checked under SpecStepping.       *)
(***************************************************************************)
\* The frame rate the controller steps with.
SteppingRate == RDiv(FromInt(1000), frame_interval_ms)

\* The number k of skip_frames(1) calls made from position 0: under
\* SpecStepping nothing else moves the position, and each call that is not
\* clamped adds skip_delta_ms(1, interval).
StepsTaken == player.position \div skip_delta_ms(1, frame_interval_ms)

\* No call was clamped: the position is k steps from 0 and below the duration.
NoStepClamped ==
    /\ player.duration > 0
    /\ player.position < player.duration
    /\ player.position = StepsTaken * skip_delta_ms(1, frame_interval_ms)

\* C39 (as claimed): starting at position 0 with a fixed frame rate r and a
\* duration large enough that no clamping occurs, after k consecutive
\* skip_frames(1) calls the frame number frame_of(position, r) is exactly k.
C39_SteppingAgreesWithConverter ==
    NoStepClamped => frame_of(player.position, SteppingRate) = StepsTaken

\* At 60 frames per second thirteen steps of 16 ms lead to position 208,
\* which the converter maps to frame 12.
C39_DriftWitness ==
    /\ frame_interval_ms = <<50, 3>>
    /\ lastOp.op = "skip_frames"
    /\ NoStepClamped
    /\ StepsTaken = 13
    /\ player.position = 208
    /\ frame_of(player.position, SteppingRate) = 12

\* At the default rate the first seven steps agree with the converter.
C39_AgreeingWitness ==
    /\ frame_interval_ms = <<100, 3>>
    /\ lastOp.op = "skip_frames"
    /\ NoStepClamped
    /\ StepsTaken = 7
    /\ frame_of(player.position, SteppingRate) = 7


(***************************************************************************)
(* Claims about the tool buttons, checked under SpecTools.                 *)
(***************************************************************************)
\* The user checked another button of the tool group (a load checks the
\* selection button by itself, and is recorded as "load_video").
IsToolSelection ==
    /\ checked_tool' # checked_tool
    /\ lastAction'.op = "other"

\* C40: after the user selects a tool button, with the uncheck notification
\* of the previously checked button delivered before the check notification
\* of the newly checked one, the canvas's current tool equals the selected
\* tool for Selection, Hand, Point, Line and Angle, equals Selection for the
\* Freehand and Brush buttons, and hand-drag mode is enabled if and only if
\* the selected tool is Hand.
C40_SelectionSetsTool ==
    [][IsToolSelection =>
          /\ current_tool' = IF checked_tool' \in {"freehand", "brush"}
                             THEN "selection" ELSE checked_tool'
          /\ hand_enabled' <=> checked_tool' = "hand"]_vars

\* The Brush button was selected while the Hand button was checked: the tool
\* is Selection and hand-drag mode is off.
C40_Witness ==
    /\ checked_tool = "brush"
    /\ lastEvent.ev = "set_current_tool"
    /\ lastEvent.before.tool = "hand"
    /\ current_tool = "selection"
    /\ ~hand_enabled

\* The Hand button was selected while the view's tool was Selection.
C40_HandWitness ==
    /\ checked_tool = "hand"
    /\ lastEvent.ev = "set_current_tool"
    /\ lastEvent.before.tool = "selection"
    /\ current_tool = "hand"
    /\ hand_enabled
    /\ lastAction.op = "other"

\* Without media, the Line button was selected while the button of the Hand,
\* Point or Angle tool was checked: its uncheck set Selection first.
C40_AfterErrorWitness ==
    /\ checked_tool = "line"
    /\ ~media_loaded
    /\ lastEvent.ev = "set_current_tool"
    /\ lastEvent.before.tool = "selection"
    /\ current_tool = "line"

====
